---------------------------- MODULE Spec2Model ----------------------------
(***************************************************************************)
(* Astral Echo: the entity store (GameStateManager), the action executors  *)
(* (travel, scan, harvest, manufacture), the per-probe pipeline            *)
(* (runProbeAgent) and the tick scheduler (runSimulation).                 *)
(*                                                                         *)
(* Every task body is JavaScript without an await inside the store calls,  *)
(* so one action of this module is one run-to-completion turn of the       *)
(* event loop: a whole executor call, or the scheduler's synchronous       *)
(* prefix of a tick.  Pipelines of one tick interleave at their awaits.    *)
(*                                                                         *)
(* Abstractions: timestamps and experience payloads are dropped (an        *)
(* experience is its event tag); every position of the seed system lies on *)
(* the x axis, so the Euclidean distance is |dx|; distances are kept as    *)
(* numerators over AU (150), so no real arithmetic is needed.              *)
(***************************************************************************)
EXTENDS Integers, Sequences, FiniteSets, TLC

\* ------------------------------------------------------------------ bounds
\* input.maxTicks of runSimulation for a run from the seed state
MaxTicks == 2
\* input.maxTicks of runSimulation for a run from a loaded snapshot
LoadedTicks == 1
\* longest action list the decision provider returns
MaxPlanLen == 2
\* longest plan of the long-plan specification: longer than maxActions
MaxLongPlan == 4
\* size of the universe of probe ids (uuidv4 is unbounded)
MaxProbes == 3

\* --------------------------------------------------------- program constants
AU == 150
solarEnergyGain == 20
maxActions == 3
energyPerAU == 2
sensorRange == 50
harvestRate == 10
storageCapacity == 5000

ResourceType == {"energy", "metal", "silicon", "hydrogen", "rare_elements"}

PROBE_REPLICATION_COST ==
  [energy |-> 1000, metal |-> 500, silicon |-> 300, hydrogen |-> 200,
   rare_elements |-> 50]

BASE_PROBE_CAPABILITIES ==
  [harvestRate |-> harvestRate, sensorRange |-> sensorRange,
   storageCapacity |-> storageCapacity]

\* faulty variant: the new probe is handed what its parent paid
NewProbeGetsTheCost == PROBE_REPLICATION_COST

\* the resources of newProbe in manufactureProbe
NEW_PROBE_RESOURCES ==
  [energy |-> 500, metal |-> 50, silicon |-> 50, hydrogen |-> 50,
   rare_elements |-> 5]

ZeroResources == [r \in ResourceType |-> 0]

firstSystemId == "sys1"
firstProbeId == 1
ProbeIds == 1..MaxProbes
\* parentProbeId of a probe that has none (the field is absent in the code)
NoParent == 0

\* ------------------------------------------------------------------ helpers
Min(a, b) == IF a < b THEN a ELSE b

Max(a, b) == IF a > b THEN a ELSE b

Abs(a) == IF a < 0 THEN -a ELSE a

\* Math.ceil(n / d) for d > 0
Ceil(n, d) == IF n % d = 0 THEN n \div d ELSE (n \div d) + 1

\* { ...base, ...updates }
Merge(base, updates) ==
  [k \in DOMAIN base \cup DOMAIN updates |->
     IF k \in DOMAIN updates THEN updates[k] ELSE base[k]]

RECURSIVE SetToSeq(_)
\* Object.values: the ids of a collection in insertion order (ids are handed
\* out in increasing order)
SetToSeq(S) ==
  IF S = {} THEN <<>>
  ELSE LET m == CHOOSE x \in S : \A y \in S : x <= y
       IN <<m>> \o SetToSeq(S \ {m})

RECURSIVE SumOver(_, _)
SumOver(f, S) ==
  IF S = {} THEN 0
  ELSE LET x == CHOOSE y \in S : TRUE IN f[x] + SumOver(f, S \ {x})

\* ---------------------------------------------------------- resource vector
\* faulty variant: a strict comparison, so holding exactly the cost is not
\* enough
canAffordStrictly(available, cost) ==
  \A resource \in DOMAIN cost : available[resource] > cost[resource]

\* Object.entries(cost).every(([resource, amount]) => available[resource] >=
\* amount)
canAffordResources(available, cost) ==
  \A resource \in DOMAIN cost : available[resource] >= cost[resource]

\* faulty variant: nothing is deducted
subtractResourcesNothing(from, cost) == from

subtractResources(from, cost) ==
  [resource \in DOMAIN from |->
     IF resource \in DOMAIN cost THEN from[resource] - cost[resource]
     ELSE from[resource]]

addResources(to, amount) ==
  [resource \in DOMAIN to |->
     IF resource \in DOMAIN amount THEN to[resource] + amount[resource]
     ELSE to[resource]]

getTotalResourceAmount(resources) == SumOver(resources, DOMAIN resources)

\* numerator of the distance in AU: calculateDistance = this / AU
calculateDistance(pos1, pos2) == Abs(pos2.x - pos1.x)

\* ---------------------------------------------------------------- the store
\* A world w is the in-memory GameState plus the snapshots written so far by
\* the running handler: [probes, solarSystems, saves].
Snapshot(w) == [probes |-> w.probes, solarSystems |-> w.solarSystems]

\* JSON.stringify of a probe: a member whose value is undefined is left out
\* of the text (parentProbeId of a probe that has no parent)
StringifyProbe(probe) ==
  LET undefinedMembers ==
        IF probe.parentProbeId = NoParent THEN {"parentProbeId"} ELSE {}
  IN [k \in DOMAIN probe \ undefinedMembers |-> probe[k]]

\* JSON.stringify(this.state): the probes as the members of an object, in
\* insertion order; a system holds numbers, strings, arrays and objects only
Stringify(state) ==
  LET ids == SetToSeq(DOMAIN state.probes)
  IN [probes |-> [i \in 1..Len(ids) |->
                    [key |-> ids[i],
                     value |-> StringifyProbe(state.probes[ids[i]])]],
      solarSystems |-> state.solarSystems]

\* faulty variant: the probe read back has the members of the text only
ParseProbeAsWritten(value) == value

\* a probe read back: a member the text does not have reads as undefined
ParseProbe(value) == Merge([parentProbeId |-> NoParent], value)

\* JSON.parse of a text written by Stringify: of two members with one key
\* the later one counts
Parse(text) ==
  LET members == text.probes
      keys == {members[i].key : i \in 1..Len(members)}
      last(key) == CHOOSE i \in 1..Len(members) :
                     /\ members[i].key = key
                     /\ \A j \in (i + 1)..Len(members) : members[j].key # key
  IN [probes |-> [key \in keys |-> ParseProbe(members[last(key)].value)],
      solarSystems |-> text.solarSystems]

\* game-state.json: whether it exists, whether readFileSync and JSON.parse
\* accept it, and the text of the GameState it holds
SnapshotFile(exists, valid, state) ==
  [exists |-> exists, valid |-> valid, text |-> Stringify(state)]

\* a file a failed writeFileSync left half written
TornFile == [exists |-> TRUE, valid |-> FALSE, text |-> <<>>]

\* The file after the writes of one handler, of which the k-th is the last
\* that succeeded (0: none did).  A later, failed write leaves the file as
\* it was or half written.
writeFileSync(file, saves, k, torn) ==
  IF k < Len(saves) /\ torn THEN TornFile
  ELSE IF k = 0 THEN file
  ELSE SnapshotFile(TRUE, TRUE, saves[k])

\* fs.writeFileSync(JSON.stringify(state)); a failed write is only logged
saveGameState(w) == [w EXCEPT !.saves = Append(@, Snapshot(w))]

getProbe(w, probeId) == w.probes[probeId]

hasProbe(w, probeId) == probeId \in DOMAIN w.probes

\* faulty variant: the probe is replaced in memory and no snapshot is written
updateProbeUnsaved(w, probeId, updates) ==
  IF hasProbe(w, probeId)
  THEN [w EXCEPT !.probes[probeId] = Merge(w.probes[probeId], updates)]
  ELSE w

\* faulty variant: the snapshot is written whether or not the id is known
updateProbeAlwaysSaves(w, probeId, updates) ==
  saveGameState(
    IF hasProbe(w, probeId)
    THEN [w EXCEPT !.probes[probeId] = Merge(w.probes[probeId], updates)]
    ELSE w)

\* if (probe) { this.state.probes[probeId] = {...probe, ...updates}; save }
updateProbe(w, probeId, updates) ==
  IF hasProbe(w, probeId)
  THEN saveGameState(
         [w EXCEPT !.probes[probeId] = Merge(w.probes[probeId], updates)])
  ELSE w

\* faulty variant: the snapshot is written but the probe is never inserted
addProbeDropped(w, probeId, probe) == saveGameState(w)

\* this.state.probes[probe.id] = probe; this.saveGameState()
addProbe(w, probeId, probe) ==
  saveGameState(
    [w EXCEPT !.probes =
       [p \in DOMAIN w.probes \cup {probeId} |->
          IF p = probeId THEN probe ELSE w.probes[p]]])

getSolarSystem(w, systemId) == w.solarSystems[systemId]

hasSolarSystem(w, systemId) == systemId \in DOMAIN w.solarSystems

addSolarSystem(w, systemId, system) ==
  saveGameState(
    [w EXCEPT !.solarSystems =
       [s \in DOMAIN w.solarSystems \cup {systemId} |->
          IF s = systemId THEN system ELSE w.solarSystems[s]]])

\* Object.values(state.probes): the probes in insertion order, by id
getAllProbes(w) == SetToSeq(DOMAIN w.probes)

addProbeExperience(w, probeId, event) ==
  IF hasProbe(w, probeId)
  THEN LET probe == getProbe(w, probeId)
       IN updateProbe(w, probeId,
            [memory |-> [probe.memory EXCEPT
                           !.experiences = Append(@, event)]])
  ELSE w

\* ------------------------------------------------------------ the seed state
Position(x) == [x |-> x, y |-> 0, z |-> 0]

SeedBodies ==
  << [id |-> "b1", name |-> "Sol Prime I", position |-> Position(150),
      resources |-> [energy |-> 2000, metal |-> 5000, silicon |-> 3000,
                     hydrogen |-> 1000, rare_elements |-> 200]],
     [id |-> "b2", name |-> "Sol Prime II", position |-> Position(230),
      resources |-> [energy |-> 1500, metal |-> 3000, silicon |-> 6000,
                     hydrogen |-> 800, rare_elements |-> 100]],
     [id |-> "b3", name |-> "Sol Prime Asteroid Belt",
      position |-> Position(400),
      resources |-> [energy |-> 0, metal |-> 20000, silicon |-> 15000,
                     hydrogen |-> 0, rare_elements |-> 1000]] >>

SeedSystem ==
  [id |-> firstSystemId, name |-> "Sol Prime", position |-> Position(0),
   star |-> [id |-> "star", name |-> "Sol Prime A", position |-> Position(0),
             resources |-> [energy |-> 999999, metal |-> 0, silicon |-> 0,
                            hydrogen |-> 999999, rare_elements |-> 0]],
   bodies |-> SeedBodies]

SeedProbe ==
  [id |-> firstProbeId, name |-> "Genesis", status |-> "active",
   position |-> Position(150), currentSystemId |-> firstSystemId,
   resources |-> [energy |-> 1000, metal |-> 100, silicon |-> 100,
                  hydrogen |-> 100, rare_elements |-> 10],
   memory |-> [visitedSystems |-> <<firstSystemId>>,
               discoveredResources |->
                 [k \in {firstSystemId} |-> SeedBodies[1].resources],
               knownProbes |-> <<>>,
               experiences |-> <<"probe_awakened">>],
   capabilities |-> BASE_PROBE_CAPABILITIES,
   parentProbeId |-> NoParent, generation |-> 0]

initializeGameState ==
  [probes |-> [p \in {firstProbeId} |-> SeedProbe],
   solarSystems |-> [s \in {firstSystemId} |-> SeedSystem]]

\* ------------------------------------------------------------ the executors
\* What a task call yields: the world after it, and either a returned
\* BaseTaskOutput (success, error.reason) or a thrown error (threw, reason).
Returned(w, success, reason) ==
  [w |-> w, success |-> success, reason |-> reason, threw |-> FALSE]

Threw(w, message) ==
  [w |-> w, success |-> FALSE, reason |-> message, threw |-> TRUE]

\* currentSystem.bodies.find(b => b.id === targetBodyId): its index, 0 if none
FindBody(system, targetBodyId) ==
  IF \E i \in 1..Len(system.bodies) : system.bodies[i].id = targetBodyId
  THEN CHOOSE i \in 1..Len(system.bodies) :
         /\ system.bodies[i].id = targetBodyId
         /\ \A j \in 1..(i - 1) : system.bodies[j].id # targetBodyId
  ELSE 0

\* faulty variant: the cost is rounded down
travelEnergyCostFloor(distance) == (distance * energyPerAU) \div AU

\* Math.ceil(distance * 2)
travelEnergyCost(distance) == Ceil(distance * energyPerAU, AU)

\* faulty variant: the executor returns without resetting the status
restoreStatusForgotten(w, probeId) == w

\* gameState.updateProbe(input.probeId, { status: "active" }), the last
\* store call of travelToPosition and of harvestResources
restoreStatus(w, probeId) == updateProbe(w, probeId, [status |-> "active"])

travelToPosition(w, probeId, targetPosition) ==
  IF ~hasProbe(w, probeId) THEN Threw(w, "Probe not found")
  ELSE
    LET probe == getProbe(w, probeId)
        distance == calculateDistance(probe.position, targetPosition)
        energyCost == travelEnergyCost(distance)
    IN IF probe.resources.energy < energyCost
       THEN Returned(w, FALSE, "insufficient_energy")
       ELSE
         LET w1 == updateProbe(w, probeId,
                     [status |-> "traveling",
                      position |-> targetPosition,
                      resources |-> subtractResources(probe.resources,
                                      [ZeroResources EXCEPT
                                         !.energy = energyCost])])
             w2 == addProbeExperience(w1, probeId, "travel_completed")
             w3 == restoreStatus(w2, probeId)
         IN Returned(w3, TRUE, "")

\* probe.capabilities.harvestRate * input.duration
harvestAmountOf(probe, duration) == probe.capabilities.harvestRate * duration

\* faulty variant: the harvest is not capped by what the body holds
actualHarvestUncapped(harvestAmount, targetBody) ==
  [r \in ResourceType |-> harvestAmount]

\* faulty variant: the harvest is capped by the stock the body had when the
\* state was initialised, not by the stock it has when the harvest is applied
actualHarvestOfSeedStock(harvestAmount, targetBody) ==
  LET seed == CHOOSE body \in {SeedBodies[i] : i \in 1..Len(SeedBodies)} :
                body.id = targetBody.id
  IN [r \in ResourceType |-> Min(harvestAmount, seed.resources[r])]

\* Math.min(harvestAmount, targetBody.resources.<field>), field by field
actualHarvestOf(harvestAmount, targetBody) ==
  [r \in ResourceType |-> Min(harvestAmount, targetBody.resources[r])]

\* faulty variant: the proximity threshold is 2 AU
tooFarBeyondTwoAU(distance) == distance > 2 * AU

\* distance > 1.0
tooFarToHarvest(distance) == distance > 1 * AU

storageExceeded(probe, actualHarvest) ==
  getTotalResourceAmount(probe.resources)
    + getTotalResourceAmount(actualHarvest)
    > probe.capabilities.storageCapacity

\* faulty variant: the system is left with the harvested body alone
updatedBodiesHarvestedOnly(currentSystem, targetBody, updatedBody) ==
  <<updatedBody>>

\* currentSystem.bodies.map((b) => b.id === targetBody.id ? updatedBody : b)
updatedBodiesOf(currentSystem, targetBody, updatedBody) ==
  [i \in 1..Len(currentSystem.bodies) |->
     IF currentSystem.bodies[i].id = targetBody.id
     THEN updatedBody ELSE currentSystem.bodies[i]]

harvestResources(w, probeId, targetBodyId, duration) ==
  IF ~hasProbe(w, probeId) THEN Threw(w, "Probe not found")
  ELSE
    LET probe == getProbe(w, probeId) IN
    IF ~hasSolarSystem(w, probe.currentSystemId)
    THEN Threw(w, "Solar system not found")
    ELSE
      LET currentSystem == getSolarSystem(w, probe.currentSystemId)
          bi == FindBody(currentSystem, targetBodyId)
      IN IF bi = 0 THEN Threw(w, "Celestial body not found")
         ELSE
           LET targetBody == currentSystem.bodies[bi]
               distance == calculateDistance(probe.position,
                                             targetBody.position)
               harvestAmount == harvestAmountOf(probe, duration)
               actualHarvest == actualHarvestOf(harvestAmount, targetBody)
           IN IF tooFarToHarvest(distance)
              THEN Returned(w, FALSE, "too_far")
              ELSE IF storageExceeded(probe, actualHarvest)
              THEN Returned(w, FALSE, "storage_full")
              ELSE
                LET w1 == updateProbe(w, probeId,
                            [status |-> "harvesting",
                             resources |-> addResources(probe.resources,
                                                        actualHarvest)])
                    updatedBody ==
                      [targetBody EXCEPT !.resources =
                         subtractResources(targetBody.resources,
                                           actualHarvest)]
                    updatedBodies ==
                      updatedBodiesOf(currentSystem, targetBody, updatedBody)
                    w2 == addSolarSystem(w1, currentSystem.id,
                            [currentSystem EXCEPT !.bodies = updatedBodies])
                    w3 == addProbeExperience(w2, probeId,
                                             "resources_harvested")
                    w4 == restoreStatus(w3, probeId)
                IN Returned(w4, TRUE, "")

\* distance > probe.capabilities.sensorRange
outOfSensorRange(probe, distance) ==
  distance > probe.capabilities.sensorRange * AU

\* faulty variant: a key that is already set keeps its value
SetKeyOnce(obj, key, value) ==
  [k \in DOMAIN obj \cup {key} |-> IF k \in DOMAIN obj THEN obj[k] ELSE value]

\* obj[key] = value on a plain object
SetKey(obj, key, value) ==
  [k \in DOMAIN obj \cup {key} |-> IF k = key THEN value ELSE obj[k]]

\* faulty variant: newProbe.memory.discoveredResources is the parent's object,
\* so a probe, its parent and its children hold the same object
holdersOfShared(ps, probeId) ==
  {q \in DOMAIN ps : \/ q = probeId
                     \/ ps[q].parentProbeId = probeId
                     \/ ps[probeId].parentProbeId = q}

\* The probes whose memory.discoveredResources is the object that the probe
\* probeId holds, which an assignment to one of its keys therefore reaches:
\* that probe alone, since initializeGameState and JSON.parse build one
\* object per probe and manufactureProbe gives the child a spread copy.
holdersOf(ps, probeId) == {probeId}

scanForResources(w, probeId, targetBodyId) ==
  IF ~hasProbe(w, probeId) THEN Threw(w, "Probe not found")
  ELSE
    LET probe == getProbe(w, probeId) IN
    IF ~hasSolarSystem(w, probe.currentSystemId)
    THEN Threw(w, "Solar system not found")
    ELSE
      LET currentSystem == getSolarSystem(w, probe.currentSystemId)
          bi == FindBody(currentSystem, targetBodyId)
      IN IF bi = 0 THEN Threw(w, "Celestial body not found")
         ELSE
           LET targetBody == currentSystem.bodies[bi]
               distance == calculateDistance(probe.position,
                                             targetBody.position)
           IN IF outOfSensorRange(probe, distance)
              THEN Returned(w, FALSE, "out_of_range")
              ELSE
                \* probe.memory.discoveredResources[id] = ... writes through
                \* the reference into the stored probe, without a save
                LET memory == [probe.memory EXCEPT !.discoveredResources =
                                 SetKey(@, targetBody.id,
                                        targetBody.resources)]
                    w0 == [w EXCEPT !.probes =
                             [q \in DOMAIN w.probes |->
                                IF q \in holdersOf(w.probes, probeId)
                                THEN [w.probes[q] EXCEPT
                                        !.memory.discoveredResources =
                                          memory.discoveredResources]
                                ELSE w.probes[q]]]
                    w1 == addProbeExperience(w0, probeId, "resources_scanned")
                    \* probe.memory is still the memory object read at the top
                    w2 == updateProbe(w1, probeId, [memory |-> memory])
                IN Returned(w2, TRUE, "")

\* uuidv4(): an id no probe has
FreshProbeId(w) ==
  CHOOSE id \in 1..(Cardinality(DOMAIN w.probes) + 1) :
    /\ id \notin DOMAIN w.probes
    /\ \A j \in 1..(id - 1) : j \in DOMAIN w.probes

\* faulty variant: the new probe is given its parent's generation
childGenerationCopied(parentProbe) == parentProbe.generation

\* generation: parentProbe.generation + 1
childGeneration(parentProbe) == parentProbe.generation + 1

manufactureProbe(w, probeId, newProbeName) ==
  IF ~hasProbe(w, probeId) THEN Threw(w, "Probe not found")
  ELSE
    LET parentProbe == getProbe(w, probeId) IN
    IF ~canAffordResources(parentProbe.resources, PROBE_REPLICATION_COST)
    THEN Returned(w, FALSE, "insufficient_resources")
    ELSE
      LET newProbeId == FreshProbeId(w)
          newProbe ==
            [id |-> newProbeId, name |-> newProbeName, status |-> "active",
             position |-> parentProbe.position,
             currentSystemId |-> parentProbe.currentSystemId,
             resources |-> NEW_PROBE_RESOURCES,
             memory |->
               [visitedSystems |-> parentProbe.memory.visitedSystems,
                discoveredResources |->
                  parentProbe.memory.discoveredResources,
                knownProbes |->
                  Append(parentProbe.memory.knownProbes, parentProbe.id),
                experiences |-> <<"probe_manufactured">>],
             capabilities |-> BASE_PROBE_CAPABILITIES,
             parentProbeId |-> parentProbe.id,
             generation |-> childGeneration(parentProbe)]
          w1 == updateProbe(w, probeId,
                  [status |-> "manufacturing",
                   resources |-> subtractResources(parentProbe.resources,
                                                   PROBE_REPLICATION_COST)])
          w2 == addProbe(w1, newProbeId, newProbe)
          \* updatedParentProbe.memory.knownProbes.push(newProbeId) writes
          \* through the reference into the stored probe, without a save
          updatedMemory == [getProbe(w2, probeId).memory EXCEPT
                              !.knownProbes = Append(@, newProbeId)]
          w3 == [w2 EXCEPT !.probes[probeId].memory = updatedMemory]
          w4 == addProbeExperience(w3, probeId, "probe_manufactured")
          \* updatedParentProbe.memory is the memory object read before the
          \* experience was added
          w5 == updateProbe(w4, probeId,
                  [memory |-> updatedMemory, status |-> "active"])
      IN Returned(w5, TRUE, "")

\* ------------------------------------------------------ the decision provider
\* A proposed action.  A parameter the provider left out is the falsy value of
\* its type ("" or 0): the pipeline only tests the parameters for truthiness.
Act(action, bodyId, duration, newProbeName) ==
  [action |-> action,
   parameters |-> [bodyId |-> bodyId, duration |-> duration,
                   newProbeName |-> newProbeName]]

WaitAction == Act("wait", "", 0, "")

\* The actions a provider answer is built from: parameters are z.record(any),
\* so any body id, any duration and any name can come back.
ActionSet ==
  { WaitAction,
    Act("explore_system", "", 0, ""),
    Act("scan_resources", "b2", 0, ""),
    Act("scan_resources", "bX", 0, ""),
    Act("travel_to_body", "b2", 0, ""),
    Act("harvest_resources", "b1", 50, ""),
    Act("harvest_resources", "b1", -5, ""),
    Act("harvest_resources", "b1", 100, ""),
    Act("harvest_resources", "b3", 1, ""),
    Act("manufacture_probe", "", 0, "Echo"),
    Act("manufacture_probe", "", 0, "") }

RECURSIVE SeqsUpTo(_, _)
\* the sequences over S of length at most n
SeqsUpTo(S, n) ==
  IF n = 0 THEN {<<>>}
  ELSE LET shorter == SeqsUpTo(S, n - 1)
       IN shorter \cup {Append(q, a) : q \in shorter, a \in S}

\* result.object of generateObject: ProbeDecisionSchema
Decision(actions, overallStrategy) ==
  [actions |-> actions, overallStrategy |-> overallStrategy]

ProviderDecisions ==
  {Decision(plan, "provider") : plan \in SeqsUpTo(ActionSet, MaxPlanLen)}

\* faulty variant: the fallback decision carries no action
FallbackDecisionEmpty == Decision(<<>>, "Fallback strategy due to AI failure")

\* the catch around generateObject
FallbackDecision ==
  Decision(<<WaitAction>>, "Fallback strategy due to AI failure")

NoDecision == Decision(<<>>, "")

RECURSIVE CountManufacture(_)
CountManufacture(actions) ==
  IF actions = <<>> THEN 0
  ELSE (IF Head(actions).action = "manufacture_probe"
           /\ Head(actions).parameters.newProbeName # ""
        THEN 1 ELSE 0) + CountManufacture(Tail(actions))

\* ---------------------------------------------------------------- pipeline
\* probeData.memory.experiences.slice(-5): what the decision prompt shows
recentExperiences(probe) ==
  LET experiences == probe.memory.experiences
  IN SubSeq(experiences, Max(1, Len(experiences) - 4), Len(experiences))

\* ProbeSchema.parse(probe) of get-probe-state: ResourcesSchema is min(0)
ProbeSchemaOk(probe) ==
  /\ \A r \in ResourceType : probe.resources[r] >= 0
  /\ \A k \in DOMAIN probe.memory.discoveredResources :
       \A r \in ResourceType : probe.memory.discoveredResources[k][r] >= 0

\* CelestialBodySchema.parse(body) of get-environment-state
EnvironmentOk(w, probe) ==
  /\ hasSolarSystem(w, probe.currentSystemId)
  /\ LET bodies == getSolarSystem(w, probe.currentSystemId).bodies
     IN /\ Len(bodies) > 0
        /\ \A i \in 1..Len(bodies) :
             \A r \in ResourceType : bodies[i].resources[r] >= 0

\* one element of executedActions: ExecutedActionSchema
Executed(action, success, reason) ==
  [action |-> action.action, parameters |-> action.parameters,
   result |-> [success |-> success, reason |-> reason]]

\* the event tag of the failure experience of each executor
failureEvent(actionKind) ==
  CASE actionKind = "scan_resources" -> "scan_resources_failed"
    [] actionKind = "travel_to_body" -> "travel_failed"
    [] actionKind = "harvest_resources" -> "harvest_failed"
    [] actionKind = "manufacture_probe" -> "manufacturing_failed"

\* faulty variant: a failed call is recorded in executedActions only
afterExecutorUnrecorded(out, probeId, action) ==
  IF out.threw \/ ~out.success
  THEN [w |-> out.w, entry |-> Executed(action, FALSE, out.reason)]
  ELSE [w |-> out.w, entry |-> Executed(action, TRUE, "")]

\* after the await of an executor: if (!result.success) addProbeExperience
afterExecutor(out, probeId, action) ==
  IF out.threw
  THEN [w |-> out.w, entry |-> Executed(action, FALSE, out.reason)]
  ELSE IF ~out.success
  THEN [w |-> addProbeExperience(out.w, probeId,
                                 failureEvent(action.action)),
        entry |-> Executed(action, FALSE, out.reason)]
  ELSE [w |-> out.w, entry |-> Executed(action, TRUE, "")]

\* a case of the switch that calls no executor leaves result undefined
resultUndefined(w, action) ==
  [w |-> w, entry |-> Executed(action, FALSE, "result: Required")]

\* The body of the for loop of runProbeAgent for one proposed action: the
\* switch, the executor call, the failure experience and the push onto
\* executedActions.  probe is the probe read when the pipeline started.
\* An executor that throws, or a case that leaves result undefined (which
\* ExecutedActionSchema.parse rejects), ends in the inner catch.
executeAction(w, probe, action) ==
  LET params == action.parameters
      probeId == probe.id
  IN
  CASE action.action = "scan_resources" ->
         IF params.bodyId # ""
         THEN afterExecutor(scanForResources(w, probeId, params.bodyId),
                            probeId, action)
         ELSE resultUndefined(w, action)
    [] action.action = "travel_to_body" ->
         IF params.bodyId # "" /\ hasSolarSystem(w, probe.currentSystemId)
         THEN LET system == getSolarSystem(w, probe.currentSystemId)
                  bi == FindBody(system, params.bodyId)
              IN IF bi # 0
                 THEN afterExecutor(
                        travelToPosition(w, probeId,
                                         system.bodies[bi].position),
                        probeId, action)
                 ELSE resultUndefined(w, action)
         ELSE resultUndefined(w, action)
    [] action.action = "harvest_resources" ->
         IF params.bodyId # "" /\ params.duration # 0
         THEN afterExecutor(
                harvestResources(w, probeId, params.bodyId, params.duration),
                probeId, action)
         ELSE resultUndefined(w, action)
    [] action.action = "manufacture_probe" ->
         IF params.newProbeName # ""
         THEN afterExecutor(
                manufactureProbe(w, probeId, params.newProbeName),
                probeId, action)
         ELSE resultUndefined(w, action)
    [] action.action = "wait" ->
         [w |-> addProbeExperience(w, probeId, "waited"),
          entry |-> Executed(action, TRUE, "")]
    [] action.action = "explore_system" ->
         [w |-> addProbeExperience(w, probeId, "explored_system"),
          entry |-> Executed(action, TRUE, "")]

\* faulty variant: the loop runs over every proposed action
actionsToRunAll(decision) == Len(decision.actions)

\* Math.min(decision.actions.length, input.maxActions)
actionsToRun(decision) == Min(Len(decision.actions), maxActions)

\* ------------------------------------------------------------------- state
VARIABLES
  probes,        \* state.probes: probe id -> Probe
  solarSystems,  \* state.solarSystems: system id -> SolarSystem
  maxTicks,      \* input.maxTicks of runSimulation
  tick,          \* the tick counter of runSimulation
  simPc,         \* where runSimulation is: "loop", "await", "done", "rejected"
  activeProbes,  \* the probes selected by the running tick, in order
  agents,        \* probe id -> the state of its pipeline in the running tick
  executionLog,  \* the tick records pushed so far
  report,        \* the final report, once simPc = "done"
  tickEntry,     \* history: the tick counter, state.probes and
                 \* state.solarSystems on entry to the running tick
  disk,          \* game-state.json
  lastCall,      \* history: the last call made on the store from outside
                 \* the simulation, and what it returned
  returned       \* the collection an earlier getAllProbes call returned, as
                 \* its holder sees it now

vars == <<probes, solarSystems, maxTicks, tick, simPc, activeProbes, agents,
          executionLog, report, tickEntry, disk, lastCall, returned>>

World == [probes |-> probes, solarSystems |-> solarSystems, saves |-> <<>>]

\* the state a handler of the simulation leaves: every write succeeds
Commit(w) ==
  \E after \in {w} :
    /\ probes' = after.probes
    /\ solarSystems' = after.solarSystems
    /\ disk' = writeFileSync(disk, after.saves, Len(after.saves), FALSE)

NoReport ==
  [totalTicks |-> -1, finalProbeCount |-> -1, finalSystemCount |-> -1,
   generations |-> -1]

\* a pipeline that has been handed to ctx.runChild and has not run yet
NewAgent ==
  [pc |-> "start", decision |-> NoDecision, i |-> 0,
   executedActions |-> <<>>, error |-> ""]

\* ------------------------------------------------------------ tick scheduler
\* faulty variant: solar charging uses the selection filter of runSimulation
receivesSolarUnlessDestroyed(probe) == probe.status # "destroyed"

\* the status filter of applySolarCharging
receivesSolar(probe) == probe.status = "active"

\* faulty variant: the selection uses the status filter of solar charging
isSelectedActiveOnly(probe) == probe.status = "active"

\* the selection filter of runSimulation
isSelected(probe) == probe.status # "destroyed"

RECURSIVE FilterIds(_, _, _)
\* ids.filter(id => Keep(ps[id])), for Keep one of the two filters above
FilterIds(ids, ps, solar) ==
  IF ids = <<>> THEN <<>>
  ELSE LET keep == IF solar THEN receivesSolar(ps[Head(ids)])
                   ELSE isSelected(ps[Head(ids)])
       IN (IF keep THEN <<Head(ids)>> ELSE <<>>)
            \o FilterIds(Tail(ids), ps, solar)

\* faulty variant: the energy is added but no experience is recorded
chargeProbeSilent(w, probe) ==
  updateProbe(w, probe.id,
              [resources |->
                 [probe.resources EXCEPT !.energy = @ + solarEnergyGain]])

\* the body of activeProbes.forEach in applySolarCharging; probe is the
\* element of the array read before the loop
chargeProbe(w, probe) ==
  LET updatedResources ==
        [probe.resources EXCEPT !.energy = @ + solarEnergyGain]
      w1 == addProbeExperience(w, probe.id, "solar_charging")
  IN updateProbe(w1, probe.id, [resources |-> updatedResources])

RECURSIVE chargeAll(_, _, _)
chargeAll(w, ids, allProbes) ==
  IF ids = <<>> THEN w
  ELSE chargeAll(chargeProbe(w, allProbes[Head(ids)]), Tail(ids), allProbes)

applySolarCharging(w) ==
  chargeAll(w, FilterIds(getAllProbes(w), w.probes, TRUE), w.probes)

\* faulty variant: no try/catch, a rejected run-probe-agent rejects the
\* promise
probePromiseUncaught(probeId, agent) ==
  IF agent.pc = "done"
  THEN [settled |-> "fulfilled", probeId |-> probeId, success |-> TRUE,
        error |-> "", executedActions |-> agent.executedActions,
        totalActions |-> Len(agent.executedActions)]
  ELSE [settled |-> "rejected", probeId |-> probeId, success |-> FALSE,
        error |-> agent.error, executedActions |-> <<>>,
        totalActions |-> 0]

\* The promise of one element of activeProbes.map(async probe => ...): the
\* try/catch turns a rejected run-probe-agent into a failure result.
probePromise(probeId, agent) ==
  IF agent.pc = "done"
  THEN [settled |-> "fulfilled", probeId |-> probeId, success |-> TRUE,
        error |-> "", executedActions |-> agent.executedActions,
        totalActions |-> Len(agent.executedActions)]
  ELSE [settled |-> "fulfilled", probeId |-> probeId, success |-> FALSE,
        error |-> agent.error, executedActions |-> <<>>,
        totalActions |-> 0]

agentSettled(agent) == agent.pc \in {"done", "failed"}

\* faulty variant: Promise.race in place of Promise.all
promiseAnyReady(ags) == \E p \in DOMAIN ags : agentSettled(ags[p])

\* await Promise.all(probePromises) can resume: every promise is fulfilled,
\* or one has rejected
promiseAllReady(ags) == \A p \in DOMAIN ags : agentSettled(ags[p])

\* faulty variant: the probes are selected once, by the first tick, and every
\* later tick fans out over that selection
TickStartStaleSelection ==
  /\ simPc = "loop"
  /\ tick < maxTicks
  /\ LET w == applySolarCharging(World)
         selected == IF tick = 0
                     THEN FilterIds(getAllProbes(w), w.probes, FALSE)
                     ELSE activeProbes
     IN /\ Commit(w)
        /\ activeProbes' = selected
        /\ agents' = [p \in {selected[i] : i \in 1..Len(selected)} |->
                        NewAgent]
  /\ tick' = tick + 1
  /\ tickEntry' = [tick |-> tick, probes |-> probes,
                   solarSystems |-> solarSystems]
  /\ simPc' = "await"
  /\ UNCHANGED <<maxTicks, executionLog, report, lastCall, returned>>

\* while (tick < maxTicks) { tick++; applySolarCharging; select; fan out }
\* up to the await of Promise.all: one synchronous turn.
TickStart ==
  /\ simPc = "loop"
  /\ tick < maxTicks
  /\ LET w == applySolarCharging(World)
         selected == FilterIds(getAllProbes(w), w.probes, FALSE)
     IN /\ Commit(w)
        /\ activeProbes' = selected
        /\ agents' = [p \in {selected[i] : i \in 1..Len(selected)} |->
                        NewAgent]
  /\ tick' = tick + 1
  /\ tickEntry' = [tick |-> tick, probes |-> probes,
                   solarSystems |-> solarSystems]
  /\ simPc' = "await"
  /\ UNCHANGED <<maxTicks, executionLog, report, lastCall, returned>>

\* the tick record pushed onto executionLog
tickData(t, selected, results) ==
  [tick |-> t,
   probeCount |-> Len(selected),
   successfulProbes |->
     Cardinality({i \in 1..Len(results) : results[i].success}),
   failedProbes |->
     Cardinality({i \in 1..Len(results) : ~results[i].success}),
   probeResults |-> results]

RECURSIVE MaxGeneration(_, _)
\* Math.max(...Object.values(probes).map(p => p.generation))
MaxGeneration(ps, ids) ==
  IF ids = {} THEN -1
  ELSE LET id == CHOOSE x \in ids : TRUE
       IN Max(ps[id].generation, MaxGeneration(ps, ids \ {id}))

finalReport(t, ps, systems) ==
  [totalTicks |-> t,
   finalProbeCount |-> Cardinality(DOMAIN ps),
   finalSystemCount |-> Cardinality(DOMAIN systems),
   generations |-> MaxGeneration(ps, DOMAIN ps)]

\* faulty variant: the tick limit is not tested
simulationEndsOnEmpty(t, selected, limit) == Len(selected) = 0

\* faulty variant: no break on an empty selection
simulationEndsAtLimit(t, selected, limit) == ~(t < limit)

\* the test that ends the loop after a tick: the break on an empty selection,
\* or the while condition failing
simulationEnds(t, selected, limit) == Len(selected) = 0 \/ ~(t < limit)

\* Promise.all resolved: aggregate, push the tick record, then break, leave
\* the loop, or sleep until the next tick.
TickJoin ==
  /\ simPc = "await"
  /\ promiseAllReady(agents)
  /\ LET results == [i \in 1..Len(activeProbes) |->
                       probePromise(activeProbes[i],
                                    agents[activeProbes[i]])]
     IN IF \E i \in 1..Len(results) : results[i].settled = "rejected"
        THEN /\ simPc' = "rejected"
             /\ UNCHANGED <<executionLog, report>>
        ELSE /\ executionLog' =
                  Append(executionLog, tickData(tick, activeProbes, results))
             /\ IF simulationEnds(tick, activeProbes, maxTicks)
                THEN /\ simPc' = "done"
                     /\ report' = finalReport(tick, probes, solarSystems)
                ELSE /\ simPc' = "loop"
                     /\ report' = report
  /\ UNCHANGED <<probes, solarSystems, maxTicks, tick, activeProbes, agents,
                 tickEntry, disk, lastCall, returned>>

\* ------------------------------------------------------- pipeline actions
Running(p) == simPc = "await" /\ p \in DOMAIN agents

\* runProbeAgent up to the decision call: getProbe, get-probe-state and
\* get-environment-state (read-only).  The child run may also be rejected by
\* the task engine.
AgentStart(p) ==
  /\ Running(p)
  /\ agents[p].pc = "start"
  /\ \E engineRejects \in BOOLEAN :
       LET error ==
             IF engineRejects THEN "child run rejected"
             ELSE IF ~hasProbe(World, p) THEN "Probe not found"
             ELSE IF ~ProbeSchemaOk(getProbe(World, p))
             THEN "get-probe-state failed"
             ELSE IF ~EnvironmentOk(World, getProbe(World, p))
             THEN "get-environment-state failed"
             ELSE ""
       IN agents' = [agents EXCEPT
                       ![p].pc = IF error = "" THEN "decide" ELSE "failed",
                       ![p].error = error]
  /\ UNCHANGED <<probes, solarSystems, maxTicks, tick, simPc, activeProbes,
                 executionLog, report, tickEntry, disk, lastCall, returned>>

RECURSIVE SumPending(_, _)
\* manufacture calls the running pipelines have still to make
SumPending(ags, ids) ==
  IF ids = {} THEN 0
  ELSE LET id == CHOOSE x \in ids : TRUE
           a == ags[id]
           rest == IF a.pc = "exec"
                   THEN SubSeq(a.decision.actions, a.i + 1,
                               actionsToRun(a.decision))
                   ELSE <<>>
       IN CountManufacture(rest) + SumPending(ags, ids \ {id})

\* the bound on the probe ids: a decision is taken only if every manufacture
\* it proposes can still get a fresh id
WithinProbeBound(decision) ==
  Cardinality(DOMAIN probes) + SumPending(agents, DOMAIN agents)
    + CountManufacture(decision.actions) <= MaxProbes

takeDecision(p, decision) ==
  agents' = [agents EXCEPT
               ![p].decision = decision,
               ![p].pc = IF actionsToRun(decision) = 0 THEN "done"
                         ELSE "exec"]

\* generateObject returned a decision
AgentDecide(p) ==
  /\ Running(p)
  /\ agents[p].pc = "decide"
  /\ \E decision \in ProviderDecisions :
       /\ WithinProbeBound(decision)
       /\ takeDecision(p, decision)
  /\ UNCHANGED <<probes, solarSystems, maxTicks, tick, simPc, activeProbes,
                 executionLog, report, tickEntry, disk, lastCall, returned>>

\* generateObject threw: the fallback decision
AgentDecideFails(p) ==
  /\ Running(p)
  /\ agents[p].pc = "decide"
  /\ takeDecision(p, FallbackDecision)
  /\ UNCHANGED <<probes, solarSystems, maxTicks, tick, simPc, activeProbes,
                 executionLog, report, tickEntry, disk, lastCall, returned>>

\* faulty variant: no try/catch inside the loop, so an error thrown by an
\* iteration rejects the whole run
AgentExecUncaught(p) ==
  /\ Running(p)
  /\ agents[p].pc = "exec"
  /\ LET a == agents[p]
         action == a.decision.actions[a.i + 1]
         out == executeAction(World, getProbe(World, p), action)
         thrown == /\ ~out.entry.result.success
                   /\ out.entry.result.reason
                        \in {"Probe not found", "Solar system not found",
                             "Celestial body not found", "result: Required"}
     IN /\ Commit(out.w)
        /\ agents' = IF thrown
                      THEN [agents EXCEPT ![p].pc = "failed",
                                          ![p].error = out.entry.result.reason]
                      ELSE [agents EXCEPT
                              ![p].executedActions = Append(@, out.entry),
                              ![p].i = a.i + 1,
                              ![p].pc = IF a.i + 1 < actionsToRun(a.decision)
                                        THEN "exec" ELSE "done"]
  /\ UNCHANGED <<maxTicks, tick, simPc, activeProbes, executionLog, report,
                 tickEntry, lastCall, returned>>

\* one iteration of the for loop: actions[i] is executed and recorded
AgentExec(p) ==
  /\ Running(p)
  /\ agents[p].pc = "exec"
  /\ LET a == agents[p]
         action == a.decision.actions[a.i + 1]
         out == executeAction(World, getProbe(World, p), action)
     IN /\ Commit(out.w)
        /\ agents' = [agents EXCEPT
                        ![p].executedActions = Append(@, out.entry),
                        ![p].i = a.i + 1,
                        ![p].pc = IF a.i + 1 < actionsToRun(a.decision)
                                  THEN "exec" ELSE "done"]
  /\ UNCHANGED <<maxTicks, tick, simPc, activeProbes, executionLog, report,
                 tickEntry, lastCall, returned>>

\* ------------------------------------------------------------ specification
InitScheduler ==
  /\ tick = 0
  /\ simPc = "loop"
  /\ activeProbes = <<>>
  /\ agents = [p \in {} |-> NewAgent]
  /\ executionLog = <<>>
  /\ report = NoReport

\* ----------------------------------------------- game-state.json at start
\* What the constructor finds on disk: no file, a file JSON.parse or the
\* probe listing rejects, or a GameState saved by an earlier process.
WithProbe(state, probe) ==
  [state EXCEPT !.probes =
     [p \in DOMAIN state.probes \cup {probe.id} |->
        IF p = probe.id THEN probe ELSE state.probes[p]]]

\* a saved game in which the only probe is destroyed
AllDestroyedState ==
  WithProbe(initializeGameState, [SeedProbe EXCEPT !.status = "destroyed"])

\* a saved game whose probe holds the replication cost once the tick's solar
\* charge is added
ExactCostState ==
  WithProbe(initializeGameState,
            [SeedProbe EXCEPT
               !.resources = [PROBE_REPLICATION_COST EXCEPT
                                !.energy = @ - solarEnergyGain]])

\* a saved game whose probe has filled its storage to 10 units below its
\* capacity
NearlyFullState ==
  WithProbe(initializeGameState,
            [SeedProbe EXCEPT
               !.resources = [energy |-> 900, metal |-> 2000,
                              silicon |-> 1000, hydrogen |-> 990,
                              rare_elements |-> 100]])

\* a saved game with a damaged probe, whose sensors reach no further than
\* the body it is at, and a destroyed child of it
DamagedState ==
  WithProbe(
    WithProbe(initializeGameState,
              [SeedProbe EXCEPT !.status = "damaged",
                                !.capabilities.sensorRange = 0]),
    [SeedProbe EXCEPT !.id = 2, !.name = "Echo", !.status = "destroyed",
                      !.parentProbeId = firstProbeId, !.generation = 1,
                      !.resources = NEW_PROBE_RESOURCES,
                      !.memory.knownProbes = <<firstProbeId>>,
                      !.memory.experiences = <<"probe_manufactured">>])

\* the runs checked: what is on disk when the process starts, and the
\* maxTicks runSimulation is then called with
Run(file, limit) == [file |-> file, maxTicks |-> limit]

Runs ==
  { Run(SnapshotFile(FALSE, FALSE, initializeGameState), MaxTicks),
    Run(SnapshotFile(TRUE, FALSE, initializeGameState), MaxTicks),
    Run(SnapshotFile(TRUE, TRUE, AllDestroyedState), MaxTicks),
    Run(SnapshotFile(TRUE, TRUE, ExactCostState), LoadedTicks),
    Run(SnapshotFile(TRUE, TRUE, DamagedState), LoadedTicks),
    Run(SnapshotFile(TRUE, TRUE, NearlyFullState), LoadedTicks) }

\* the file holds a text that JSON.parse accepts and whose probes can be
\* listed
loads(file) == file.exists /\ file.valid /\ "probes" \in DOMAIN file.text

\* faulty variant: the file is never read
loadOrInitializeAlwaysSeeds(file) == initializeGameState

loadOrInitializeGameState(file) ==
  IF loads(file) THEN Parse(file.text) ELSE initializeGameState

\* The file once the constructor has returned: initializeGameState saves the
\* seed state, a load writes nothing.
constructed(file, writable) ==
  IF loads(file) \/ ~writable THEN file
  ELSE SnapshotFile(TRUE, TRUE, initializeGameState)

\* no call has been made on the store from outside the simulation
NoCall ==
  [op |-> "none", id |-> 0, attempts |-> 0, written |-> 0, calls |-> 0,
   repeats |-> FALSE, out |-> [defined |-> FALSE]]

\* getAllProbes has not been called
NoCollection == [held |-> FALSE, probes |-> <<>>]

\* the store after construction, and the maxTicks the simulation is run with
Init ==
  /\ \E run \in Runs :
       /\ probes = loadOrInitializeGameState(run.file).probes
       /\ solarSystems = loadOrInitializeGameState(run.file).solarSystems
       /\ maxTicks = run.maxTicks
       /\ disk = constructed(run.file, TRUE)
  /\ tickEntry = [tick |-> 0, probes |-> probes,
                  solarSystems |-> solarSystems]
  /\ lastCall = NoCall
  /\ returned = NoCollection
  /\ InitScheduler

Next ==
  \/ TickStart
  \/ TickJoin
  \/ \E p \in ProbeIds : AgentStart(p)
  \/ \E p \in ProbeIds : AgentDecide(p)
  \/ \E p \in ProbeIds : AgentDecideFails(p)
  \/ \E p \in ProbeIds : AgentExec(p)

Spec == Init /\ [][Next]_vars

\* ------------------------------------------------------- reading the state
AllBodies ==
  UNION {{solarSystems[s].bodies[i] : i \in 1..Len(solarSystems[s].bodies)} :
           s \in DOMAIN solarSystems}

\* the stock of body b of the system probe p is in, before and after a step
StockOf(systems, p, b) ==
  LET system == systems[probes[p].currentSystemId]
  IN system.bodies[FindBody(system, b)].resources

\* this step is one iteration of p's action loop
ExecStep(p) ==
  /\ p \in DOMAIN agents
  /\ agents[p].pc = "exec"
  /\ p \in DOMAIN agents'
  /\ agents'[p].i = agents[p].i + 1

\* the record that iteration pushed onto executedActions
Pushed(p) == agents'[p].executedActions[Len(agents'[p].executedActions)]

HasEntry(p, actionKind, success) ==
  /\ p \in DOMAIN agents
  /\ \E i \in 1..Len(agents[p].executedActions) :
       /\ agents[p].executedActions[i].action = actionKind
       /\ agents[p].executedActions[i].result.success = success

\* ------------------------------------------------------------------ claims
\* C1: after any sequence of store mutations, every field of every probe's
\* inventory and of every body's stock is >= 0.
C1_NoNegativeResource ==
  /\ \A p \in DOMAIN probes :
       \A r \in ResourceType : probes[p].resources[r] >= 0
  /\ \A body \in AllBodies :
       \A r \in ResourceType : body.resources[r] >= 0

\* C2: for every successful harvest call and each resource field, the probe's
\* gain equals the body's loss, equals min(harvestRate x duration, stock
\* before the call), and so never exceeds the stock before the call.
C2_HarvestConserves ==
  [][\A p \in ProbeIds :
       (/\ ExecStep(p)
        /\ Pushed(p).action = "harvest_resources"
        /\ Pushed(p).result.success)
       => LET b == Pushed(p).parameters.bodyId
              duration == Pushed(p).parameters.duration
              before == StockOf(solarSystems, p, b)
              after == StockOf(solarSystems', p, b)
          IN \A r \in ResourceType :
               LET gain == probes'[p].resources[r] - probes[p].resources[r]
                   loss == before[r] - after[r]
               IN /\ gain = loss
                  /\ gain = Min(probes[p].capabilities.harvestRate * duration,
                                before[r])
                  /\ gain <= before[r]]_vars

\* C2 witness: a harvest succeeded and took all that was left of a stock
\* smaller than harvestRate x duration (200 rare elements of Sol Prime I).
C2_Witness ==
  \E p \in DOMAIN probes :
    /\ HasEntry(p, "harvest_resources", TRUE)
    /\ probes[p].resources.rare_elements = 210
    /\ solarSystems[firstSystemId].bodies[1].resources.rare_elements = 0

C4_FailureContained ==
  /\ simPc # "rejected"
  /\ (simPc \in {"loop", "done"} /\ executionLog # <<>>)
     => LET rec == executionLog[Len(executionLog)]
        IN /\ Len(rec.probeResults) = Len(activeProbes)
           /\ \A i \in 1..Len(activeProbes) :
                LET p == activeProbes[i]
                    r == rec.probeResults[i]
                IN /\ r.probeId = p
                   /\ agents[p].pc \in {"done", "failed"}
                   /\ agents[p].pc = "failed"
                      => /\ ~r.success
                         /\ r.error = agents[p].error
                         /\ r.error # ""
                   /\ agents[p].pc = "done"
                      => /\ r.success
                         /\ r.executedActions = agents[p].executedActions

\* C4 witness: a tick was recorded in which one pipeline failed and another
\* completed with at least one executed action.
C4_Witness ==
  /\ simPc \in {"loop", "done"}
  /\ \E p, q \in DOMAIN agents :
       /\ agents[p].pc = "failed"
       /\ agents[q].pc = "done"
       /\ agents[q].executedActions # <<>>
  /\ executionLog # <<>>
  /\ executionLog[Len(executionLog)].failedProbes >= 1
  /\ executionLog[Len(executionLog)].successfulProbes >= 1

FallbackStrategy == "Fallback strategy due to AI failure"

\* the probe's log as solar charging left it when the running tick began
LogAfterSolar(p) ==
  LET entry == tickEntry.probes[p]
  IN IF entry.status = "active"
     THEN Append(entry.memory.experiences, "solar_charging")
     ELSE entry.memory.experiences

\* the pipeline whose provider failed: never failed, one successful wait, one
\* `waited` added to the log
C5_Result ==
  \A p \in DOMAIN agents :
    agents[p].decision.overallStrategy = FallbackStrategy
    => /\ agents[p].pc \in {"exec", "done"}
       /\ agents[p].pc = "done"
          => /\ agents[p].executedActions
                  = <<Executed(Act("wait", "", 0, ""), TRUE, "")>>
             /\ probes[p].memory.experiences
                  = Append(LogAfterSolar(p), "waited")

\* the step in which a pipeline falls back changes only that pipeline
C5_Isolation ==
  \A p \in DOMAIN agents :
    (/\ agents[p].pc = "decide"
     /\ p \in DOMAIN agents'
     /\ agents'[p].decision.overallStrategy = FallbackStrategy)
    => /\ probes' = probes
       /\ solarSystems' = solarSystems
       /\ simPc' = simPc
       /\ \A q \in DOMAIN agents \ {p} : agents'[q] = agents[q]

\* C5: when the decision provider fails, the pipeline does not fail: it
\* executes exactly one wait, its result is that single successful wait, the
\* probe's log gains exactly one `waited`, and the step that takes the
\* fallback touches neither the store, the scheduler nor another pipeline.
C5_FallbackWait == []C5_Result /\ [][C5_Isolation]_vars

\* C5 witness: a pipeline whose decision provider failed has completed.
C5_Witness ==
  \E p \in DOMAIN agents :
    /\ agents[p].decision.overallStrategy = FallbackStrategy
    /\ agents[p].pc = "done"
    /\ Len(agents[p].executedActions) = 1

C7_TickNotCounted ==
  (simPc = "done" /\ tick >= 1 /\ activeProbes = <<>>)
  => report.totalTicks = tickEntry.tick

\* C7 amended: when no non-destroyed probe exists at the start of a tick, no
\* pipeline runs and the store is left as it was, the loop never starts
\* another tick, and the simulation ends with that tick counted and
\* recorded: totalTicks is the tick count on entry plus one, and the tick's
\* record has probeCount 0 and no results.
C7_EmptyTickCounted ==
  (tick >= 1 /\ activeProbes = <<>>)
  => /\ simPc \in {"await", "done"}
     /\ DOMAIN agents = {}
     /\ probes = tickEntry.probes
     /\ simPc = "done"
        => /\ report.totalTicks = tickEntry.tick + 1
           /\ Len(executionLog) = tickEntry.tick + 1
           /\ executionLog[Len(executionLog)].probeCount = 0
           /\ executionLog[Len(executionLog)].probeResults = <<>>

\* C7 witness: the simulation has ended on a tick that selected no probe,
\* below the tick limit.
C7_Witness ==
  /\ simPc = "done"
  /\ activeProbes = <<>>
  /\ tick = 1
  /\ tick < maxTicks

RECURSIVE CountEvent(_, _)
CountEvent(experiences, event) ==
  IF experiences = <<>> THEN 0
  ELSE (IF Head(experiences) = event THEN 1 ELSE 0)
       + CountEvent(Tail(experiences), event)

\* C8: the step that opens a tick gives every probe whose status is active
\* 20 energy and one `solar_charging` experience and changes nothing else of
\* it, leaves every other probe untouched, and is taken before any pipeline
\* of the tick has started; no other step adds a `solar_charging`.
C8_SolarCharging ==
  [][/\ tick' = tick + 1
        => /\ DOMAIN probes' = DOMAIN probes
           /\ \A p \in DOMAIN probes :
                IF probes[p].status = "active"
                THEN probes'[p]
                       = [probes[p] EXCEPT
                            !.resources.energy = @ + 20,
                            !.memory.experiences = Append(@, "solar_charging")]
                ELSE probes'[p] = probes[p]
           /\ \A p \in DOMAIN agents' : agents'[p].pc = "start"
     /\ tick' = tick
        => \A p \in DOMAIN probes :
             CountEvent(probes'[p].memory.experiences, "solar_charging")
               = CountEvent(probes[p].memory.experiences, "solar_charging")
    ]_vars

\* C8 witness: a tick has opened on an active probe, which now holds 20
\* energy more than on entry.
C8_Witness ==
  /\ simPc = "await"
  /\ \E p \in DOMAIN agents :
       /\ agents[p].pc = "start"
       /\ tickEntry.probes[p].status = "active"
       /\ probes[p].resources.energy
            = tickEntry.probes[p].resources.energy + 20

\* C9: a probe that is active with energy E at the start of a tick and whose
\* decision for the tick is a single wait ends the tick with energy E + 20,
\* status active, every other field as it was, and exactly two experiences
\* appended: `solar_charging`, then `waited`.
C9_WaitTick ==
  \A p \in DOMAIN agents :
    (/\ agents[p].pc = "done"
     /\ agents[p].decision.actions = <<Act("wait", "", 0, "")>>
     /\ tickEntry.probes[p].status = "active")
    => probes[p]
         = [tickEntry.probes[p] EXCEPT
              !.resources.energy = @ + 20,
              !.memory.experiences = @ \o <<"solar_charging", "waited">>]

\* C9 witness: the tick is over for an active probe whose provider returned
\* a single wait.
C9_Witness ==
  /\ simPc \in {"loop", "done"}
  /\ \E p \in DOMAIN agents :
       /\ agents[p].pc = "done"
       /\ agents[p].decision.actions = <<Act("wait", "", 0, "")>>
       /\ agents[p].decision.overallStrategy # FallbackStrategy
       /\ tickEntry.probes[p].status = "active"
       /\ probes[p].status = "active"

\* C10: a manufacture call with a name succeeds exactly when the parent
\* holds at least 1000 energy, 500 metal, 300 silicon, 200 hydrogen and 50
\* rare elements (equality included); on success each field of the parent's
\* inventory is its value before minus the cost, and the one new probe has
\* the requested name and the parent's generation + 1.
C10_ManufactureAffordable ==
  [][\A p \in ProbeIds :
       (/\ ExecStep(p)
        /\ Pushed(p).action = "manufacture_probe"
        /\ Pushed(p).parameters.newProbeName # "")
       => LET cost == [energy |-> 1000, metal |-> 500, silicon |-> 300,
                       hydrogen |-> 200, rare_elements |-> 50]
              pre == probes[p].resources
              born == DOMAIN probes' \ DOMAIN probes
          IN /\ Pushed(p).result.success
                  <=> \A r \in ResourceType : pre[r] >= cost[r]
             /\ Pushed(p).result.success
                  => /\ \A r \in ResourceType :
                          probes'[p].resources[r] = pre[r] - cost[r]
                     /\ Cardinality(born) = 1
                     /\ \A c \in born :
                          /\ probes'[c].name
                               = Pushed(p).parameters.newProbeName
                          /\ probes'[c].generation
                               = probes[p].generation + 1]_vars

\* C10 witness: a parent that held exactly the cost has manufactured a probe
\* and is left with an empty inventory.
C10_Witness ==
  \E p \in DOMAIN probes :
    /\ HasEntry(p, "manufacture_probe", TRUE)
    /\ Len(agents[p].executedActions) = 1
    /\ probes[p].resources = ZeroResources
    /\ \E c \in DOMAIN probes : probes[c].parentProbeId = p

\* the body a proposed action names, in the system of probe p: its index in
\* the system's bodies (0 if the system has no such body), and its distance
\* from the probe in millions of km
TargetIndex(p, action) ==
  FindBody(solarSystems[probes[p].currentSystemId], action.parameters.bodyId)

TargetDistance(p, action) ==
  LET system == solarSystems[probes[p].currentSystemId]
      x == system.bodies[TargetIndex(p, action)].position.x
  IN IF x >= probes[p].position.x THEN x - probes[p].position.x
     ELSE probes[p].position.x - x

HasReason(p, reason) ==
  /\ p \in DOMAIN agents
  /\ \E i \in 1..Len(agents[p].executedActions) :
       /\ ~agents[p].executedActions[i].result.success
       /\ agents[p].executedActions[i].result.reason = reason

\* the precondition that fails for the action probe p is about to execute,
\* "" if none does (150 million km = 1 AU)
FailedPrecondition(p, action) ==
  LET kind == action.action
      params == action.parameters
      me == probes[p]
      found == params.bodyId # "" /\ TargetIndex(p, action) # 0
      body == solarSystems[me.currentSystemId].bodies[TargetIndex(p, action)]
      d == TargetDistance(p, action)
      held == me.resources.energy + me.resources.metal + me.resources.silicon
                + me.resources.hydrogen + me.resources.rare_elements
      amount == me.capabilities.harvestRate * params.duration
      take(r) == IF amount <= body.resources[r] THEN amount
                 ELSE body.resources[r]
      taken == take("energy") + take("metal") + take("silicon")
                 + take("hydrogen") + take("rare_elements")
  IN IF kind = "travel_to_body" /\ found /\ me.resources.energy * 150 < 2 * d
     THEN "insufficient_energy"
     ELSE IF kind = "scan_resources" /\ found
             /\ d > me.capabilities.sensorRange * 150
     THEN "out_of_range"
     ELSE IF kind = "harvest_resources" /\ found /\ params.duration # 0
             /\ d > 150
     THEN "too_far"
     ELSE IF kind = "harvest_resources" /\ found /\ params.duration # 0
             /\ held + taken > me.capabilities.storageCapacity
     THEN "storage_full"
     ELSE IF kind = "manufacture_probe" /\ params.newProbeName # ""
             /\ (\/ me.resources.energy < 1000
                 \/ me.resources.metal < 500
                 \/ me.resources.silicon < 300
                 \/ me.resources.hydrogen < 200
                 \/ me.resources.rare_elements < 50)
     THEN "insufficient_resources"
     ELSE ""

PreconditionTags ==
  {"insufficient_energy", "out_of_range", "too_far", "storage_full",
   "insufficient_resources"}

\* the action probe p's pipeline executes next
NextAction(p) == agents[p].decision.actions[agents[p].i + 1]

\* C11: an executor call whose precondition fails returns success = false
\* with the reason tag of that precondition (and a call returns such a tag
\* only then), and leaves every probe's inventory, position and status,
\* every body's stock and the set of probes unchanged.
C11_PreconditionFailure ==
  [][\A p \in ProbeIds :
       ExecStep(p)
       => LET tag == FailedPrecondition(p, NextAction(p))
          IN /\ tag # ""
                => /\ ~Pushed(p).result.success
                   /\ Pushed(p).result.reason = tag
                   /\ DOMAIN probes' = DOMAIN probes
                   /\ \A q \in DOMAIN probes :
                        /\ probes'[q].resources = probes[q].resources
                        /\ probes'[q].position = probes[q].position
                        /\ probes'[q].status = probes[q].status
                   /\ solarSystems' = solarSystems
             /\ Pushed(p).result.reason \in PreconditionTags
                => Pushed(p).result.reason = tag]_vars

\* C11 witness: one pipeline was refused a harvest for distance and a
\* harvest for storage.
C11_Witness ==
  \E p \in DOMAIN agents :
    /\ HasReason(p, "too_far")
    /\ HasReason(p, "storage_full")

FailureEvents ==
  {"travel_failed", "scan_resources_failed", "harvest_failed",
   "manufacturing_failed"}

RECURSIVE CountIn(_, _)
\* how many elements of a sequence lie in a set
CountIn(seq, S) ==
  IF seq = <<>> THEN 0
  ELSE (IF Head(seq) \in S THEN 1 ELSE 0) + CountIn(Tail(seq), S)

\* the reasons of the failed entries of a pipeline result
FailureReasons(executed) ==
  [i \in 1..Len(executed) |->
     IF executed[i].result.success THEN "" ELSE executed[i].result.reason]

\* the precondition failures probe p's pipeline recorded in the last
\* completed tick (0 if it ran no pipeline then)
PreviousFailures(p) ==
  IF executionLog = <<>> THEN 0
  ELSE LET results == executionLog[Len(executionLog)].probeResults
       IN IF \E i \in 1..Len(results) : results[i].probeId = p
          THEN LET r == results[CHOOSE i \in 1..Len(results) :
                                  results[i].probeId = p]
               IN CountIn(FailureReasons(r.executedActions),
                          PreconditionTags)
          ELSE 0

\* a call that returns a precondition failure adds exactly one failure
\* record, with the tag of its executor, to the caller's log
C12_Recorded ==
  \A p \in ProbeIds :
    (ExecStep(p) /\ Pushed(p).result.reason \in PreconditionTags)
    => LET kind == Pushed(p).action
           event == IF kind = "travel_to_body" THEN "travel_failed"
                    ELSE IF kind = "scan_resources"
                    THEN "scan_resources_failed"
                    ELSE IF kind = "harvest_resources" THEN "harvest_failed"
                    ELSE "manufacturing_failed"
       IN /\ probes'[p].memory.experiences
               = Append(probes[p].memory.experiences, event)
          /\ \A q \in DOMAIN probes \ {p} :
               probes'[q].memory.experiences = probes[q].memory.experiences

\* when the probe's next pipeline reads its state for the decision, the
\* experiences shown to the provider include every such record of the
\* previous tick
C12_Visible ==
  \A p \in DOMAIN agents :
    (simPc = "await" /\ agents[p].pc \in {"start", "decide"})
    => CountIn(recentExperiences(probes[p]), FailureEvents)
         >= PreviousFailures(p)

IsPrefix(a, b) == Len(a) <= Len(b) /\ SubSeq(b, 1, Len(a)) = a

\* the store states the next iteration of p's action loop passes through:
\* the store before it, then the store at each saveGameState of the iteration
StoreStates(p) ==
  <<Snapshot(World)>>
    \o executeAction(World, getProbe(World, p), NextAction(p)).w.saves

\* C13: each probe's experience log is append-only: in any two successive
\* store states, between steps and between the store calls of one executor,
\* the earlier log is a prefix of the later one.
C13_AppendOnly ==
  [][/\ \A q \in DOMAIN probes :
          /\ q \in DOMAIN probes'
          /\ IsPrefix(probes[q].memory.experiences,
                      probes'[q].memory.experiences)
     /\ \A p \in ProbeIds :
          ExecStep(p)
          => LET states == StoreStates(p)
             IN \A i \in 1..(Len(states) - 1) :
                  \A q \in DOMAIN states[i].probes :
                    IsPrefix(states[i].probes[q].memory.experiences,
                             states[i + 1].probes[q].memory.experiences)]_vars

\* ------------------------------------- a second specification: long plans
\* One tick of the seed game in which the provider proposes up to MaxLongPlan
\* actions, more than maxActions, out of a small set: a wait, an
\* exploration, and a harvest that is refused for distance.
LongPlanActions ==
  { WaitAction,
    Act("explore_system", "", 0, ""),
    Act("harvest_resources", "b3", 1, "") }

LongDecisions ==
  {Decision(plan, "provider") : plan \in SeqsUpTo(LongPlanActions, MaxLongPlan)}

\* generateObject returned a decision
AgentDecideLong(p) ==
  /\ Running(p)
  /\ agents[p].pc = "decide"
  /\ \E decision \in LongDecisions : takeDecision(p, decision)
  /\ UNCHANGED <<probes, solarSystems, maxTicks, tick, simPc, activeProbes,
                 executionLog, report, tickEntry, disk, lastCall, returned>>

InitPlans ==
  /\ probes = initializeGameState.probes
  /\ solarSystems = initializeGameState.solarSystems
  /\ maxTicks = LoadedTicks
  /\ tickEntry = [tick |-> 0, probes |-> probes,
                  solarSystems |-> solarSystems]
  /\ disk = SnapshotFile(TRUE, TRUE, initializeGameState)
  /\ lastCall = NoCall
  /\ returned = NoCollection
  /\ InitScheduler

NextPlans ==
  \/ TickStart
  \/ TickJoin
  \/ \E p \in ProbeIds : AgentStart(p)
  \/ \E p \in ProbeIds : AgentDecideLong(p)
  \/ \E p \in ProbeIds : AgentDecideFails(p)
  \/ \E p \in ProbeIds : AgentExec(p)

SpecPlans == InitPlans /\ [][NextPlans]_vars

\* the experience each action of the long-plan set leaves in the log
LongPlanEvent(action) ==
  IF action.action = "wait" THEN "waited"
  ELSE IF action.action = "explore_system" THEN "explored_system"
  ELSE "harvest_failed"

\* at every point of a pipeline run, executedActions holds one entry for
\* each of the first i proposed actions, in order, i never exceeds
\* min(number proposed, 3), a finished run has executed exactly that many,
\* and the experiences the run has added are those of these actions in order
C14_Prefix ==
  \A p \in DOMAIN agents :
    LET a == agents[p]
        proposed == a.decision.actions
        limit == IF Len(proposed) <= 3 THEN Len(proposed) ELSE 3
    IN /\ Len(a.executedActions) = a.i
       /\ a.i <= limit
       /\ a.pc = "done" => a.i = limit
       /\ \A k \in 1..a.i :
            /\ a.executedActions[k].action = proposed[k].action
            /\ a.executedActions[k].parameters = proposed[k].parameters
       /\ (a.pc \in {"exec", "done"}
           /\ \A k \in 1..Len(proposed) : proposed[k] \in LongPlanActions)
          => probes[p].memory.experiences
               = LogAfterSolar(p)
                   \o [k \in 1..a.i |-> LongPlanEvent(proposed[k])]

\* one action at a time: an iteration executes the next proposed action and
\* records it, and nothing else changes executedActions or the position in
\* the plan
C14_OneAtATime ==
  \A p \in DOMAIN agents :
    p \in DOMAIN agents'
    => \/ /\ agents[p].pc = "exec"
          /\ agents'[p].i = agents[p].i + 1
          /\ agents'[p].executedActions
               = Append(agents[p].executedActions, Pushed(p))
          /\ Pushed(p).action = NextAction(p).action
          /\ agents'[p].decision = agents[p].decision
       \/ /\ agents'[p].i = agents[p].i
          /\ agents'[p].executedActions = agents[p].executedActions
       \/ tick' = tick + 1

\* C14: within a pipeline run the actions are executed in the order the
\* provider returned them, one at a time, at most maxActions (3) of them;
\* executedActions has exactly one entry for each of the first
\* min(number proposed, 3) proposed actions, in the same order.
C14_OrderAndBound == []C14_Prefix /\ [][C14_OneAtATime]_vars

\* C14 witness: a run that was proposed four actions has finished with the
\* first three executed.
C14_Witness ==
  \E p \in DOMAIN agents :
    /\ agents[p].pc = "done"
    /\ Len(agents[p].decision.actions) = 4
    /\ Len(agents[p].executedActions) = 3
    /\ agents[p].decision.actions[3] # agents[p].decision.actions[4]
    /\ agents[p].decision.actions[1] # agents[p].decision.actions[2]

\* the action names a body its system does not have, or lacks the parameter
\* its executor needs
ExecutorError(p, action) ==
  LET kind == action.action
      params == action.parameters
  IN \/ /\ kind \in {"scan_resources", "travel_to_body"}
        /\ (params.bodyId = "" \/ TargetIndex(p, action) = 0)
     \/ /\ kind = "harvest_resources"
        /\ \/ params.bodyId = ""
           \/ params.duration = 0
           \/ TargetIndex(p, action) = 0
     \/ /\ kind = "manufacture_probe"
        /\ params.newProbeName = ""

\* a failed entry has a reason, and a run fails only before its decision
C15_Recorded ==
  \A p \in DOMAIN agents :
    /\ \A k \in 1..Len(agents[p].executedActions) :
         ~agents[p].executedActions[k].result.success
         => agents[p].executedActions[k].result.reason # ""
    /\ agents[p].pc = "failed" => agents[p].decision.actions = <<>>
    /\ agents[p].pc = "done"
       => Len(agents[p].executedActions)
            = (IF Len(agents[p].decision.actions) <= 3
               THEN Len(agents[p].decision.actions) ELSE 3)

\* an iteration whose action fails records the failure and moves on to the
\* next proposed action, or finishes the run after the last one
C15_Continues ==
  \A p \in ProbeIds :
    ExecStep(p)
    => /\ (FailedPrecondition(p, NextAction(p)) # ""
           \/ ExecutorError(p, NextAction(p)))
          => /\ ~Pushed(p).result.success
             /\ Pushed(p).result.reason # ""
       /\ agents'[p].pc
            = IF agents'[p].i < Len(agents[p].decision.actions)
                 /\ agents'[p].i < 3
              THEN "exec" ELSE "done"

\* C15: a failed action (a precondition failure, an unknown body id, a
\* missing parameter) is recorded in executedActions with success = false
\* and a reason and does not stop the pipeline: the following proposed
\* actions within the bound are executed and the run returns a result.
C15_FailureContinues == []C15_Recorded /\ [][C15_Continues]_vars

\* C15 witness: a run has finished whose first action named an unknown body
\* and whose second action then succeeded.
C15_Witness ==
  \E p \in DOMAIN agents :
    /\ agents[p].pc = "done"
    /\ Len(agents[p].executedActions) = 2
    /\ ~agents[p].executedActions[1].result.success
    /\ agents[p].executedActions[1].result.reason = "Celestial body not found"
    /\ agents[p].executedActions[2].result.success

\* a tick record is consistent in itself: one result per counted probe, no
\* probe twice, the two counts add up to probeCount and are the numbers of
\* successful and failed results, and a failed result has an error
RecordConsistent(rec) ==
  LET results == rec.probeResults
      failed == {i \in 1..Len(results) : ~results[i].success}
  IN /\ Len(results) = rec.probeCount
     /\ \A i, j \in 1..Len(results) :
          results[i].probeId = results[j].probeId => i = j
     /\ rec.successfulProbes + rec.failedProbes = rec.probeCount
     /\ rec.failedProbes = Cardinality(failed)
     /\ \A i \in failed : results[i].error # ""

\* C16: every tick record has exactly one result for each probe that was
\* not destroyed when the tick selected its probes and none for a destroyed
\* probe, successfulProbes + failedProbes = probeCount, and every failed
\* result carries an error reason.
C16_TickRecord ==
  /\ \A n \in 1..Len(executionLog) : RecordConsistent(executionLog[n])
  /\ (simPc \in {"loop", "done"} /\ executionLog # <<>>)
     => LET results == executionLog[Len(executionLog)].probeResults
        IN {results[i].probeId : i \in 1..Len(results)}
             = {q \in DOMAIN tickEntry.probes :
                  tickEntry.probes[q].status # "destroyed"}

\* C16 witness: a tick was recorded in a store that holds a destroyed probe
\* and a probe that is neither active nor destroyed; the record has the one
\* result.
C16_Witness ==
  /\ simPc = "done"
  /\ executionLog # <<>>
  /\ executionLog[Len(executionLog)].probeCount = 1
  /\ \E q \in DOMAIN tickEntry.probes :
       tickEntry.probes[q].status = "destroyed"
  /\ \E q \in DOMAIN tickEntry.probes :
       /\ tickEntry.probes[q].status = "damaged"
       /\ executionLog[Len(executionLog)].probeResults[1].probeId = q

\* ------------------------------------------------ progress of the scheduler
\* The runs of Init with a provider that proposes at most MaxPlanLen actions
\* out of a wait, an exploration, a refused harvest and a manufacture.
ShortPlanActions == LongPlanActions \cup {Act("manufacture_probe", "", 0, "Echo")}

ShortDecisions ==
  {Decision(plan, "provider") : plan \in SeqsUpTo(ShortPlanActions, MaxPlanLen)}

\* generateObject returned a decision
AgentDecideShort(p) ==
  /\ Running(p)
  /\ agents[p].pc = "decide"
  /\ \E decision \in ShortDecisions :
       /\ WithinProbeBound(decision)
       /\ takeDecision(p, decision)
  /\ UNCHANGED <<probes, solarSystems, maxTicks, tick, simPc, activeProbes,
                 executionLog, report, tickEntry, disk, lastCall, returned>>

NextTicks ==
  \/ TickStart
  \/ TickJoin
  \/ \E p \in ProbeIds : AgentStart(p)
  \/ \E p \in ProbeIds : AgentDecideShort(p)
  \/ \E p \in ProbeIds : AgentDecideFails(p)
  \/ \E p \in ProbeIds : AgentExec(p)

\* The event loop runs every continuation that is ready, and every child run
\* settles: a step that stays possible is eventually taken.
FairSpec == Init /\ [][NextTicks]_vars /\ WF_vars(NextTicks)

\* at most maxTicks ticks, one record per tick numbered 1, 2, ... in order,
\* only the last tick may have selected no probe, and a finished
\* simulation reports as many ticks as it recorded: maxTicks of them unless
\* its last tick selected no probe
C17_Ticks ==
  /\ tick <= maxTicks
  /\ Len(executionLog) <= tick
  /\ \A n \in 1..Len(executionLog) :
       /\ executionLog[n].tick = n
       /\ n < tick => executionLog[n].probeCount > 0
  /\ simPc = "done"
     => /\ report.totalTicks = Len(executionLog)
        /\ report.totalTicks = tick
        /\ \/ report.totalTicks = maxTicks
           \/ executionLog[Len(executionLog)].probeCount = 0

\* C17: when every pipeline completes or fails the simulation terminates;
\* it runs at most maxTicks ticks, exactly maxTicks if every tick selects a
\* probe, stops after the first tick that selects none, and reports
\* totalTicks equal to the number of tick records, which are numbered
\* 1..totalTicks in order.
C17_Terminates == <>(simPc = "done") /\ []C17_Ticks

\* C17 witness: the simulation has ended at the tick limit after two ticks
\* that each selected a probe.
C17_Witness ==
  /\ simPc = "done"
  /\ maxTicks = 2
  /\ report.totalTicks = 2
  /\ Len(executionLog) = 2
  /\ executionLog[1].probeCount > 0
  /\ executionLog[2].probeCount > 0

\* C18: the set of probes changes only by a successful manufacture call,
\* which adds exactly one probe; that child has status active, the position
\* and system its parent had at the call, the inventory (500, 50, 50, 50, 5)
\* whatever the parent holds, parentProbeId = the parent's id, and the
\* parent's id among its known probes.
C18_OnlyManufactureAdds ==
  [][LET born == DOMAIN probes' \ DOMAIN probes
         makers == {p \in ProbeIds :
                      /\ ExecStep(p)
                      /\ Pushed(p).action = "manufacture_probe"
                      /\ Pushed(p).result.success}
     IN /\ DOMAIN probes \subseteq DOMAIN probes'
        /\ born # {} <=> makers # {}
        /\ born # {}
           => /\ Cardinality(born) = 1
              /\ Cardinality(makers) = 1
              /\ \A c \in born : \A p \in makers :
                   LET child == probes'[c]
                   IN /\ child.status = "active"
                      /\ child.position = probes[p].position
                      /\ child.currentSystemId = probes[p].currentSystemId
                      /\ child.resources
                           = [energy |-> 500, metal |-> 50, silicon |-> 50,
                              hydrogen |-> 50, rare_elements |-> 5]
                      /\ child.parentProbeId = p
                      /\ \E k \in 1..Len(child.memory.knownProbes) :
                           child.memory.knownProbes[k] = p]_vars

\* C18 witness: a parent that had travelled to Sol Prime II, holding more
\* than the cost, has manufactured a probe there.
C18_Witness ==
  \E p \in DOMAIN probes :
    /\ HasEntry(p, "manufacture_probe", TRUE)
    /\ probes[p].position.x = 230
    /\ probes[p].resources.metal > 0
    /\ \E c \in DOMAIN probes :
         /\ probes[c].parentProbeId = p
         /\ probes[c].position.x = 230

\* C19: in every reachable state the seed probe has generation 0 and no
\* parent, and every other probe has a parentProbeId that names a probe in
\* the store and a generation equal to that parent's generation + 1.
C19_Lineage ==
  /\ firstProbeId \in DOMAIN probes
  /\ probes[firstProbeId].generation = 0
  /\ probes[firstProbeId].parentProbeId = NoParent
  /\ \A c \in DOMAIN probes \ {firstProbeId} :
       /\ probes[c].parentProbeId \in DOMAIN probes
       /\ probes[c].generation
            = probes[probes[c].parentProbeId].generation + 1

\* C19 witness: the store holds MaxProbes probes, the seed probe has
\* manufactured one of them in this run and has paid for it.
C19_Witness ==
  /\ Cardinality(DOMAIN probes) = MaxProbes
  /\ \E c \in DOMAIN probes \ {firstProbeId} :
       /\ probes[c].parentProbeId = firstProbeId
       /\ HasEntry(firstProbeId, "manufacture_probe", TRUE)
  /\ probes[firstProbeId].resources # SeedProbe.resources

\* the ids of the bodies of a system
BodyIds(system) == {system.bodies[i].id : i \in 1..Len(system.bodies)}

\* C20: under any sequence of tick-scheduler steps, pipeline steps and
\* executor calls, no probe and no solar system is ever removed from the
\* store: the sets of probe ids and system ids only grow, and each system
\* keeps the same set of body ids.
C20_NothingRemoved ==
  [][/\ DOMAIN probes \subseteq DOMAIN probes'
     /\ DOMAIN solarSystems \subseteq DOMAIN solarSystems'
     /\ \A s \in DOMAIN solarSystems :
          BodyIds(solarSystems'[s]) = BodyIds(solarSystems[s])]_vars

\* C20 witness: a harvest has rewritten the system of a probe and a
\* manufacture has inserted a probe, with every probe, system and body of
\* the start still in the store.
C20_Witness ==
  /\ \E p \in DOMAIN probes : HasEntry(p, "harvest_resources", TRUE)
  /\ \E p \in DOMAIN probes : HasEntry(p, "manufacture_probe", TRUE)
  /\ \E s \in DOMAIN solarSystems :
       /\ solarSystems[s] # initializeGameState.solarSystems[s]
       /\ BodyIds(solarSystems[s])
            = BodyIds(initializeGameState.solarSystems[s])

\* ------------------------------------------------ the store, called directly
\* The store is a singleton any module can call, and the executors and the
\* status query are tasks any client can run with any probe id.  This
\* specification calls them one at a time, from outside the simulation, on a
\* disk whose writes may fail, and lets the process restart.

\* number of calls made on the store in one behaviour
MaxCalls == 3

schedulerVars ==
  <<maxTicks, tick, simPc, activeProbes, agents, executionLog, report,
    tickEntry>>

\* the updates a caller hands to updateProbe
StoreUpdates ==
  { [status |-> "destroyed"],
    [resources |-> NEW_PROBE_RESOURCES, status |-> "active"] }

\* the runs of the executor tasks: the task and its input besides probeId
Task(name, bodyId, duration, newProbeName) ==
  [name |-> name, bodyId |-> bodyId, duration |-> duration,
   newProbeName |-> newProbeName]

StoreTasks ==
  { Task("travel-to-position", "b2", 0, ""),
    Task("scan-for-resources", "b2", 0, ""),
    Task("scan-for-resources", "b1", 0, ""),
    Task("harvest-resources", "b1", 50, ""),
    Task("manufacture-probe", "", 0, "Echo") }

\* the run of one executor task with input.probeId = probeId
runTask(w, probeId, task) ==
  CASE task.name = "travel-to-position" ->
         travelToPosition(w, probeId,
                          SeedBodies[FindBody(SeedSystem, task.bodyId)]
                            .position)
    [] task.name = "scan-for-resources" ->
         scanForResources(w, probeId, task.bodyId)
    [] task.name = "harvest-resources" ->
         harvestResources(w, probeId, task.bodyId, task.duration)
    [] task.name = "manufacture-probe" ->
         manufactureProbe(w, probeId, task.newProbeName)

\* a value handed back to the caller, or undefined
Value(v) == [defined |-> TRUE, value |-> v]

Undefined == [defined |-> FALSE]

\* What the holder of a collection returned by getAllProbes sees once the
\* store holds the probes ps.  updateProbe replaces a probe object by a
\* shallow copy, so the fields of the old object stay; the discovered
\* resources and the known probes are objects the copy shares with it, and
\* the executors write into them in place.
Seen(collection, ps) ==
  IF ~collection.held THEN collection
  ELSE [collection EXCEPT !.probes =
          [i \in 1..Len(collection.probes) |->
             LET old == collection.probes[i]
             IN IF old.id \in DOMAIN ps
                THEN [old EXCEPT
                        !.memory.discoveredResources =
                          ps[old.id].memory.discoveredResources,
                        !.memory.knownProbes = ps[old.id].memory.knownProbes]
                ELSE old]]

\* the outcomes of the writes of a handler that saves n times: the last
\* write that succeeds, and whether a later one leaves the file half written
WriteOutcomes(n) ==
  {[k |-> k, torn |-> torn] : k \in 0..n, torn \in BOOLEAN} \
    {[k |-> n, torn |-> TRUE]}

\* the state a direct call leaves, and the record of the call; repeats says
\* that the call before it was the same operation with the same id
StoreCommit(op, id, w, outcome, out) ==
  /\ probes' = w.probes
  /\ solarSystems' = w.solarSystems
  /\ disk' = writeFileSync(disk, w.saves, outcome.k, outcome.torn)
  /\ returned' = Seen(returned, w.probes)
  /\ lastCall' = [op |-> op, id |-> id, attempts |-> Len(w.saves),
                  written |-> outcome.k, calls |-> lastCall.calls + 1,
                  repeats |-> (lastCall.op = op /\ lastCall.id = id),
                  out |-> out]

MoreCalls == lastCall.calls < MaxCalls

\* Object.values(probes).reduce(count by key)
countBy(ps, key) ==
  [v \in {ps[p][key] : p \in DOMAIN ps} |->
     Cardinality({p \in DOMAIN ps : ps[p][key] = v})]

RECURSIVE sumResources(_, _)
\* allProbes.reduce((acc, probe) => addResources(acc, probe.resources), 0)
sumResources(ps, ids) ==
  IF ids = <<>> THEN ZeroResources
  ELSE addResources(sumResources(ps, SubSeq(ids, 1, Len(ids) - 1)),
                    ps[ids[Len(ids)]].resources)

\* faulty variant: the totals are taken over the probes that are not
\* destroyed
getSimulationStatusOfLiving(w) ==
  LET living == {p \in DOMAIN w.probes : w.probes[p].status # "destroyed"}
  IN [totalProbes |-> Cardinality(living),
      totalSystems |-> Cardinality(DOMAIN w.solarSystems),
      generationStats |-> countBy(w.probes, "generation"),
      statusStats |-> countBy(w.probes, "status"),
      totalResources |-> sumResources(w.probes, SetToSeq(living))]

\* statusData of get-simulation-status, without the clock readings
getSimulationStatus(w) ==
  [totalProbes |-> Len(getAllProbes(w)),
   totalSystems |-> Cardinality(DOMAIN w.solarSystems),
   generationStats |-> countBy(w.probes, "generation"),
   statusStats |-> countBy(w.probes, "status"),
   totalResources |-> sumResources(w.probes, getAllProbes(w))]

\* faulty variant: reading a probe stamps it
StoreGetProbeStamping(id) ==
  /\ MoreCalls
  /\ LET w == addProbeExperience(World, id, "read")
     IN StoreCommit("getProbe", id, [w EXCEPT !.saves = <<>>],
                    [k |-> 0, torn |-> FALSE],
                    IF hasProbe(w, id) THEN Value(getProbe(w, id))
                    ELSE Undefined)
  /\ UNCHANGED schedulerVars

\* gameState.getProbe(id)
StoreGetProbe(id) ==
  /\ MoreCalls
  /\ StoreCommit("getProbe", id, World, [k |-> 0, torn |-> FALSE],
                 IF hasProbe(World, id) THEN Value(getProbe(World, id))
                 ELSE Undefined)
  /\ UNCHANGED schedulerVars

\* gameState.getAllProbes(): the array of the probe objects of the store
StoreGetAllProbes ==
  /\ MoreCalls
  /\ ~returned.held
  /\ probes' = probes
  /\ solarSystems' = solarSystems
  /\ disk' = disk
  /\ returned' = [held |-> TRUE,
                  probes |-> [i \in 1..Len(getAllProbes(World)) |->
                                probes[getAllProbes(World)[i]]]]
  /\ lastCall' = [op |-> "getAllProbes", id |-> 0, attempts |-> 0,
                  written |-> 0, calls |-> lastCall.calls + 1,
                  repeats |-> FALSE, out |-> Undefined]
  /\ UNCHANGED schedulerVars

\* gameState.updateProbe(id, updates)
StoreUpdateProbe(id, updates) ==
  /\ MoreCalls
  /\ LET w == updateProbe(World, id, updates)
     IN \E outcome \in WriteOutcomes(Len(w.saves)) :
          StoreCommit("updateProbe", id, w, outcome, Value(updates))
  /\ UNCHANGED schedulerVars

\* gameState.addProbeExperience(id, {event})
StoreAddProbeExperience(id, event) ==
  /\ MoreCalls
  /\ LET w == addProbeExperience(World, id, event)
     IN \E outcome \in WriteOutcomes(Len(w.saves)) :
          StoreCommit("addProbeExperience", id, w, outcome, Value(event))
  /\ UNCHANGED schedulerVars

\* a run of an executor task
StoreRunTask(id, task) ==
  /\ MoreCalls
  /\ task.name = "manufacture-probe"
       => Cardinality(DOMAIN probes) < MaxProbes
  /\ \E done \in {runTask(World, id, task)} :
       \E outcome \in WriteOutcomes(Len(done.w.saves)) :
         StoreCommit(task.name, id, done.w, outcome,
                     Value([success |-> done.success, threw |-> done.threw,
                            reason |-> done.reason]))
  /\ UNCHANGED schedulerVars

\* a run of get-simulation-status
StoreStatus ==
  /\ MoreCalls
  /\ StoreCommit("get-simulation-status", 0, World,
                 [k |-> 0, torn |-> FALSE],
                 Value(getSimulationStatus(World)))
  /\ UNCHANGED schedulerVars

\* The process ends and a new one constructs the store from the file; out
\* holds the file the constructor found.
StoreRestart ==
  /\ MoreCalls
  /\ lastCall.op # "constructor"
  /\ \E writable \in BOOLEAN :
       /\ probes' = loadOrInitializeGameState(disk).probes
       /\ solarSystems' = loadOrInitializeGameState(disk).solarSystems
       /\ disk' = constructed(disk, writable)
       /\ lastCall' = [op |-> "constructor", id |-> 0,
                       attempts |-> IF loads(disk) THEN 0 ELSE 1,
                       written |-> IF loads(disk) \/ ~writable THEN 0 ELSE 1,
                       calls |-> lastCall.calls + 1, repeats |-> FALSE,
                       out |-> Value(disk)]
  /\ returned' = NoCollection
  /\ UNCHANGED schedulerVars

\* a readable file of JSON text that has no probes member
FileWithoutProbes ==
  [exists |-> TRUE, valid |-> TRUE,
   text |-> [solarSystems |-> initializeGameState.solarSystems]]

\* what the first process finds on disk
StoreFiles ==
  { SnapshotFile(FALSE, FALSE, initializeGameState),
    TornFile,
    FileWithoutProbes,
    SnapshotFile(TRUE, TRUE, DamagedState) }

InitStore ==
  /\ \E file \in StoreFiles : \E writable \in BOOLEAN :
       /\ probes = loadOrInitializeGameState(file).probes
       /\ solarSystems = loadOrInitializeGameState(file).solarSystems
       /\ disk = constructed(file, writable)
       /\ lastCall = [op |-> "constructor", id |-> 0,
                      attempts |-> IF loads(file) THEN 0 ELSE 1,
                      written |-> IF loads(file) \/ ~writable THEN 0 ELSE 1,
                      calls |-> 0, repeats |-> FALSE, out |-> Value(file)]
  /\ returned = NoCollection
  /\ maxTicks = LoadedTicks
  /\ tickEntry = [tick |-> 0, probes |-> probes,
                  solarSystems |-> solarSystems]
  /\ InitScheduler

NextStore ==
  \/ \E id \in ProbeIds : StoreGetProbe(id)
  \/ StoreGetAllProbes
  \/ \E id \in ProbeIds : \E updates \in StoreUpdates :
       StoreUpdateProbe(id, updates)
  \/ \E id \in ProbeIds : StoreAddProbeExperience(id, "noted")
  \/ \E id \in ProbeIds : \E task \in StoreTasks : StoreRunTask(id, task)
  \/ StoreStatus
  \/ StoreRestart

SpecStore == InitStore /\ [][NextStore]_vars

\* ------------------------------------------------------- claims on the store
\* this step is a direct call of the store operation or task op
CallStep(op) ==
  /\ lastCall'.calls = lastCall.calls + 1
  /\ lastCall'.op = op

\* C21: updateProbe and addProbeExperience called with an id that is not in
\* the store leave the whole store state unchanged, add no probe and write no
\* snapshot; updateProbe with a known id changes only the given fields of
\* that one probe and leaves every other probe and every system unchanged.
C21_UpdateFrame ==
  [][LET id == lastCall'.id
     IN /\ ( /\ CallStep("updateProbe") \/ CallStep("addProbeExperience")
             /\ id \notin DOMAIN probes )
           => /\ probes' = probes
              /\ solarSystems' = solarSystems
              /\ disk' = disk
              /\ lastCall'.attempts = 0
        /\ (CallStep("updateProbe") /\ id \in DOMAIN probes)
           => LET updates == lastCall'.out.value
              IN /\ DOMAIN probes' = DOMAIN probes
                 /\ \A q \in DOMAIN probes \ {id} : probes'[q] = probes[q]
                 /\ solarSystems' = solarSystems
                 /\ DOMAIN probes'[id] = DOMAIN probes[id]
                 /\ \A field \in DOMAIN probes[id] :
                      probes'[id][field]
                        = IF field \in DOMAIN updates THEN updates[field]
                          ELSE probes[id][field]]_vars

\* C21 witness: the last of the calls was an updateProbe with an id the
\* store, which holds two probes, does not have.
C21_Witness ==
  /\ lastCall.op = "updateProbe"
  /\ lastCall.id \notin DOMAIN probes
  /\ lastCall.attempts = 0
  /\ lastCall.calls = MaxCalls
  /\ Cardinality(DOMAIN probes) = 2

\* the file holds the text of the state now in the store
DiskInSync ==
  /\ loads(disk)
  /\ Parse(disk.text) = Snapshot(World)

\* the direct calls that change the store
MutatingOps ==
  {"updateProbe", "addProbeExperience"} \cup {t.name : t \in StoreTasks}

\* C22: every mutating store call that changes state attempts a full
\* snapshot write; if the write succeeds the durable snapshot equals the
\* in-memory state; if it fails the in-memory mutation is kept and the call
\* completes normally, and the next successful write makes the durable
\* snapshot equal to the in-memory state again.
C22_SnapshotWrite ==
  [][\A op \in MutatingOps :
       CallStep(op) =>
         LET id == lastCall'.id
             out == lastCall'.out.value
             failed == lastCall'.written < lastCall'.attempts
         IN /\ (probes' # probes \/ solarSystems' # solarSystems)
                 => lastCall'.attempts >= 1
            /\ (op \in {"updateProbe", "addProbeExperience"}
                  /\ id \in DOMAIN probes)
                 => lastCall'.attempts = 1
            /\ (lastCall'.attempts >= 1 /\ ~failed) => DiskInSync'
            /\ (failed /\ op = "updateProbe")
                 => \A field \in DOMAIN out : probes'[id][field] = out[field]
            /\ (failed /\ op = "addProbeExperience")
                 => probes'[id].memory.experiences
                      = Append(probes[id].memory.experiences, out)
            /\ (failed /\ op \notin {"updateProbe", "addProbeExperience"})
                 => /\ ~out.threw
                    /\ (out.success /\ op # "scan-for-resources")
                         => /\ probes' # probes
                            /\ probes'[id].status = "active"]_vars

\* C22 witness: every write of a harvest failed and left the file half
\* written, and the probe holds what it harvested.
C22_Witness ==
  /\ lastCall.op = "harvest-resources"
  /\ lastCall.attempts >= 1
  /\ lastCall.written = 0
  /\ disk = TornFile
  /\ lastCall.out.value.success
  /\ probes[lastCall.id].resources.metal = 600

\* saving the state in memory and loading the file reproduces it
C23_SaveThenParse == Parse(Stringify(Snapshot(World))) = Snapshot(World)

\* a process that starts on the file the last process wrote from its final
\* state has a store with the same probes and systems, equal in every field
C23_LoadsWhatWasSaved ==
  (CallStep("constructor") /\ DiskInSync)
    => /\ DOMAIN probes' = DOMAIN probes
       /\ DOMAIN solarSystems' = DOMAIN solarSystems
       /\ \A p \in DOMAIN probes :
            \A field \in DOMAIN probes[p] \cup DOMAIN probes'[p] :
              /\ field \in DOMAIN probes[p] \cap DOMAIN probes'[p]
              /\ probes'[p][field] = probes[p][field]
       /\ \A sys \in DOMAIN solarSystems :
            solarSystems'[sys] = solarSystems[sys]

IsSeedState ==
  /\ Cardinality(DOMAIN solarSystems) = 1
  /\ \A sys \in DOMAIN solarSystems :
       LET system == solarSystems[sys]
       IN /\ system.star.resources
               = [energy |-> 999999, metal |-> 0, silicon |-> 0,
                  hydrogen |-> 999999, rare_elements |-> 0]
          /\ Len(system.bodies) = 3
          /\ system.bodies[1].resources
               = [energy |-> 2000, metal |-> 5000, silicon |-> 3000,
                  hydrogen |-> 1000, rare_elements |-> 200]
          /\ system.bodies[2].resources
               = [energy |-> 1500, metal |-> 3000, silicon |-> 6000,
                  hydrogen |-> 800, rare_elements |-> 100]
          /\ system.bodies[3].resources
               = [energy |-> 0, metal |-> 20000, silicon |-> 15000,
                  hydrogen |-> 0, rare_elements |-> 1000]
          /\ Cardinality(DOMAIN probes) = 1
          /\ \A p \in DOMAIN probes :
               /\ probes[p].generation = 0
               /\ probes[p].status = "active"
               /\ probes[p].resources
                    = [energy |-> 1000, metal |-> 100, silicon |-> 100,
                       hydrogen |-> 100, rare_elements |-> 10]
               /\ probes[p].position = system.bodies[1].position
               /\ probes[p].currentSystemId = sys

\* C24: when the store is constructed and the snapshot is missing or corrupt
\* (unreadable, unparsable, or lacking the probe collection), the store
\* starts in the seed state; when a valid snapshot exists the store starts in
\* exactly the saved state.
C24_Construction ==
  lastCall.op = "constructor"
    => LET file == lastCall.out.value
       IN IF ~file.exists \/ ~file.valid \/ "probes" \notin DOMAIN file.text
          THEN IsSeedState
          ELSE Stringify(Snapshot(World)) = file.text

\* C24 witness: a process that had served a call left the file half written,
\* and the next process starts in the seed state.
C24_Witness ==
  /\ lastCall.op = "constructor"
  /\ lastCall.calls >= 2
  /\ lastCall.out.value = TornFile
  /\ IsSeedState

\* C25: a collection returned by getAllProbes is a snapshot copy: no later
\* store operation or executor call changes any value reachable from it,
\* including a probe's nested memory collections and inventory.
C25_ReturnedIsCopy ==
  [][(returned.held /\ returned'.held)
       => returned'.probes = returned.probes]_vars

\* C26: getProbe(id) called twice with no store update in between returns
\* equal values both times, and calling getProbe does not change the store.
C26_GetProbeTwice ==
  [][CallStep("getProbe")
       => /\ probes' = probes
          /\ solarSystems' = solarSystems
          /\ disk' = disk
          /\ lastCall'.attempts = 0
          /\ (lastCall.op = "getProbe" /\ lastCall.id = lastCall'.id)
               => lastCall'.out = lastCall.out]_vars

\* C26 witness: the second of two getProbe calls in a row for a probe the
\* store holds, after a call that changed that probe.
C26_Witness ==
  /\ lastCall.op = "getProbe"
  /\ lastCall.repeats
  /\ lastCall.calls = MaxCalls
  /\ lastCall.out.defined
  /\ lastCall.out.value = probes[lastCall.id]
  /\ Len(lastCall.out.value.memory.experiences) >= 2

\* C27: the status query changes nothing in the store and writes no
\* snapshot; its totalProbes equals the sum of its per-generation counts and
\* the sum of its per-status counts, totalSystems equals the number of
\* systems, and each total resource field equals the sum of that field over
\* all probes in the store.
C27_StatusQuery ==
  [][CallStep("get-simulation-status")
       => LET status == lastCall'.out.value
          IN /\ probes' = probes
             /\ solarSystems' = solarSystems
             /\ disk' = disk
             /\ lastCall'.attempts = 0
             /\ status.totalProbes
                  = SumOver(status.generationStats,
                            DOMAIN status.generationStats)
             /\ status.totalProbes
                  = SumOver(status.statusStats, DOMAIN status.statusStats)
             /\ status.totalSystems = Cardinality(DOMAIN solarSystems)
             /\ \A r \in ResourceType :
                  status.totalResources[r]
                    = SumOver([p \in DOMAIN probes |->
                                 probes[p].resources[r]],
                              DOMAIN probes)]_vars

\* C27 witness: the status of a store with two probes of two generations
\* and two statuses, queried after two other calls.
C27_Witness ==
  /\ lastCall.op = "get-simulation-status"
  /\ lastCall.calls = MaxCalls
  /\ lastCall.out.value.totalProbes = 2
  /\ Cardinality(DOMAIN lastCall.out.value.generationStats) = 2
  /\ Cardinality(DOMAIN lastCall.out.value.statusStats) = 2
  /\ lastCall.out.value.totalResources.metal > 150

\* ---------------------------------------------------- claims on the actions
\* the event tag of the experience a successful action records
successEvent(actionKind) ==
  CASE actionKind = "travel_to_body" -> "travel_completed"
    [] actionKind = "scan_resources" -> "resources_scanned"
    [] actionKind = "harvest_resources" -> "resources_harvested"
    [] actionKind = "manufacture_probe" -> "probe_manufactured"
    [] actionKind = "wait" -> "waited"
    [] actionKind = "explore_system" -> "explored_system"

\* C28: when a successful action returns (travel, scan, harvest, manufacture
\* for the parent, wait, explore), the acting probe's experience log in the
\* store ends with exactly one new record for that action that was not there
\* before the call; and the manufactured child's log holds one
\* probe_manufactured record.
C28_SuccessExperience ==
  [][\A p \in ProbeIds :
       (ExecStep(p) /\ Pushed(p).result.success)
         => /\ probes'[p].memory.experiences
                 = Append(probes[p].memory.experiences,
                          successEvent(Pushed(p).action))
            /\ Pushed(p).action = "manufacture_probe"
                 => \A c \in DOMAIN probes' \ DOMAIN probes :
                      probes'[c].memory.experiences
                        = <<"probe_manufactured">>]_vars

\* the statuses an executor sets while it works
TransientStatus == {"traveling", "harvesting", "manufacturing"}

C30_DestroyedIsTerminal ==
  [][\A task \in StoreTasks :
       CallStep(task.name)
         => \A p \in DOMAIN probes :
              probes[p].status = "destroyed"
                => probes'[p].status = "destroyed"]_vars

\* ------------------------------------------------ pipelines of the same tick
\* pipeline p of the running tick has a successful harvest of body b on record
HarvestedBy(p, b) ==
  /\ p \in DOMAIN agents
  /\ \E i \in 1..Len(agents[p].executedActions) :
       LET e == agents[p].executedActions[i]
       IN /\ e.action = "harvest_resources"
          /\ e.result.success
          /\ e.parameters.bodyId = b

\* the successful actions of the running tick are harvests of body b and
\* actions that move no resource
OnlyHarvestsOf(b) ==
  \A p \in DOMAIN agents :
    \A i \in 1..Len(agents[p].executedActions) :
      LET e == agents[p].executedActions[i]
      IN e.result.success
         => \/ e.action = "harvest_resources" /\ e.parameters.bodyId = b
            \/ e.action \in {"wait", "explore_system", "scan_resources"}

\* what the running tick's harvests have credited to probe p so far: its
\* inventory now, less its inventory on entry to the tick and the solar
\* charge of the tick
Credited(p, r) ==
  probes[p].resources[r] - tickEntry.probes[p].resources[r]
    - (IF r = "energy" /\ receivesSolar(tickEntry.probes[p])
       THEN solarEnergyGain ELSE 0)

\* the ids of the bodies of every system
AllBodyIds == {body.id : body \in AllBodies}

\* a harvest that follows another pipeline's harvest of the same body
C31_StepAtomic ==
  \A p \in ProbeIds :
    (/\ ExecStep(p)
     /\ Pushed(p).action = "harvest_resources"
     /\ Pushed(p).result.success
     /\ \E q \in DOMAIN agents \ {p} :
          HarvestedBy(q, Pushed(p).parameters.bodyId))
    => LET b == Pushed(p).parameters.bodyId
           system == solarSystems[probes[p].currentSystemId]
           after == solarSystems'[probes[p].currentSystemId]
           bi == FindBody(system, b)
       IN /\ \A r \in ResourceType :
               LET taken == Min(harvestAmountOf(probes[p],
                                                Pushed(p).parameters.duration),
                                system.bodies[bi].resources[r])
               IN /\ probes'[p].resources[r] = probes[p].resources[r] + taken
                  /\ after.bodies[bi].resources[r]
                       = system.bodies[bi].resources[r] - taken
          /\ \A q \in DOMAIN probes \ {p} : probes'[q] = probes[q]
          /\ DOMAIN probes' = DOMAIN probes
          /\ Len(after.bodies) = Len(system.bodies)
          /\ \A j \in 1..Len(system.bodies) :
               j # bi => after.bodies[j] = system.bodies[j]

\* the body's stock against what the tick has credited
C31_Conserved ==
  \A b \in AllBodyIds :
    (/\ OnlyHarvestsOf(b)
     /\ \E p, q \in DOMAIN agents :
          p # q /\ HarvestedBy(p, b) /\ HarvestedBy(q, b))
    => \A r \in ResourceType :
         StockOf(solarSystems, CHOOSE p \in DOMAIN agents : TRUE, b)[r]
           = StockOf(tickEntry.solarSystems,
                     CHOOSE p \in DOMAIN agents : TRUE, b)[r]
               - SumOver([p \in DOMAIN agents |-> Credited(p, r)],
                         DOMAIN agents)

\* C31: when the pipelines of two or more probes harvest the same body within
\* one tick, every harvest is applied atomically.  (1) A harvest that follows
\* another pipeline's harvest of the same body takes, per field,
\* min(harvestRate x duration, the stock the earlier harvest left), the body
\* loses exactly that, and no other probe and no other body changes.  (2) As
\* long as the tick's successful actions are harvests of that body, the body's
\* stock is its stock on entry to the tick minus the sum of what the tick has
\* credited to the probes.
C31_ConcurrentHarvest == []C31_Conserved /\ [][C31_StepAtomic]_vars

\* C31 witness: two pipelines of one tick have each harvested Sol Prime I, and
\* each was credited hydrogen: the second took what the first had left.
C31_Witness ==
  \E p, q \in DOMAIN agents :
    /\ p # q
    /\ HarvestedBy(p, "b1") /\ HarvestedBy(q, "b1")
    /\ OnlyHarvestsOf("b1")
    /\ Credited(p, "hydrogen") > 0
    /\ Credited(q, "hydrogen") > 0

RECURSIVE runActions(_, _, _, _)
\* the for loop of runProbeAgent run without interruption from action i + 1
\* on: the store it leaves and the records it pushes
runActions(w, p, decision, i) ==
  IF i >= actionsToRun(decision) THEN [w |-> w, executedActions |-> <<>>]
  ELSE LET out == executeAction(w, getProbe(w, p), decision.actions[i + 1])
           rest == runActions([out.w EXCEPT !.saves = <<>>], p, decision,
                              i + 1)
       IN [w |-> rest.w,
           executedActions |-> <<out.entry>> \o rest.executedActions]

RECURSIVE runInOrder(_, _, _)
\* the pipelines ids of a tick run one after the other, each to completion,
\* with the decisions ags holds; a pipeline that failed before its action
\* loop runs nothing
runInOrder(w, ids, ags) ==
  IF ids = <<>> THEN [w |-> w, executedActions |-> [p \in {} |-> <<>>]]
  ELSE LET p == Head(ids)
           first == IF ags[p].pc = "failed"
                    THEN [w |-> w, executedActions |-> <<>>]
                    ELSE runActions(w, p, ags[p].decision, 0)
           rest == runInOrder(first.w, Tail(ids), ags)
       IN [w |-> rest.w,
           executedActions |->
             [q \in DOMAIN rest.executedActions \cup {p} |->
                IF q = p THEN first.executedActions
                ELSE rest.executedActions[q]]]

\* the store on entry to the running tick, once solar charging is applied
AfterSolar ==
  applySolarCharging([probes |-> tickEntry.probes,
                      solarSystems |-> tickEntry.solarSystems,
                      saves |-> <<>>])

\* the children of probe p in ps
ChildrenOf(ps, p) == {c \in DOMAIN ps : ps[c].parentProbeId = p}

\* C32: pipelines of one tick do not depend on each other's order.  Once
\* every pipeline of the tick has settled, the store and the action outcomes
\* are those that the same decisions yield when the pipelines run one after
\* the other in selection order: every selected probe's inventory, position
\* and status, every body's stock, the number of probes and of each probe's
\* children, and each pipeline's executed actions.  (Were the end of the tick
\* the same for every interleaving, it would be that of this one.)
C32_OrderIndependent ==
  (simPc = "await" /\ promiseAllReady(agents))
  => LET inOrder == runInOrder(AfterSolar, activeProbes, agents)
     IN /\ \A p \in DOMAIN agents :
             /\ probes[p].resources = inOrder.w.probes[p].resources
             /\ probes[p].position = inOrder.w.probes[p].position
             /\ probes[p].status = inOrder.w.probes[p].status
             /\ agents[p].executedActions = inOrder.executedActions[p]
             /\ Cardinality(ChildrenOf(probes, p))
                  = Cardinality(ChildrenOf(inOrder.w.probes, p))
        /\ Cardinality(DOMAIN probes)
             = Cardinality(DOMAIN inOrder.w.probes)
        /\ \A sys \in DOMAIN solarSystems :
             \A j \in 1..Len(solarSystems[sys].bodies) :
               solarSystems[sys].bodies[j].resources
                 = inOrder.w.solarSystems[sys].bodies[j].resources

\* ------------------------------------------------------ snapshots on disk
\* the total of resource r over the bodies of a store state
BodyTotal(state, r) ==
  SumOver([sys \in DOMAIN state.solarSystems |->
             LET bodies == state.solarSystems[sys].bodies
             IN SumOver([j \in 1..Len(bodies) |-> bodies[j].resources[r]],
                        1..Len(bodies))],
          DOMAIN state.solarSystems)

\* no probe of the snapshot has a transient status
NoTransientIn(state) ==
  \A q \in DOMAIN state.probes : state.probes[q].status \notin TransientStatus

\* what probe p holds more in the snapshot than before the action is what the
\* bodies hold less
GainMatchesLoss(before, state, p) ==
  \A r \in ResourceType :
    state.probes[p].resources[r] - before.probes[p].resources[r]
      = BodyTotal(before, r) - BodyTotal(state, r)

\* if probe p has paid the replication cost in the snapshot, its child is in
\* the snapshot
CostMatchesChild(before, state, p) ==
  state.probes[p].resources
    = subtractResources(before.probes[p].resources, PROBE_REPLICATION_COST)
  => \E c \in DOMAIN state.probes \ DOMAIN before.probes :
       state.probes[c].parentProbeId = p

\* C33: every snapshot written to durable storage is action-consistent.  Of
\* the snapshots that one iteration of a pipeline's action loop writes, each
\* holds no probe with a transient status, no harvest gain without the
\* matching loss of body stock, and no deducted manufacture cost without the
\* child.
C33_SnapshotsConsistent ==
  [][\A p \in ProbeIds :
       ExecStep(p)
       => LET states == StoreStates(p)
          IN \A i \in 2..Len(states) :
               /\ NoTransientIn(states[i])
               /\ NextAction(p).action = "harvest_resources"
                    => GainMatchesLoss(states[1], states[i], p)
               /\ NextAction(p).action = "manufacture_probe"
                    => CostMatchesChild(states[1], states[i], p)]_vars

\* ------------------------------------------------------------------- travel
\* C34: a travel call by a probe with energy >= ceil(2 x distance to the
\* target) succeeds and leaves the probe at exactly the target position, with
\* energy reduced by exactly ceil(2 x distance), every other inventory field
\* unchanged and status active; apart from the experience log, nothing else
\* of the probe changes, and no other probe and no body changes.
C34_Travel ==
  [][\A p \in ProbeIds :
       (/\ ExecStep(p)
        /\ Pushed(p).action = "travel_to_body"
        /\ TargetIndex(p, Pushed(p)) # 0
        /\ probes[p].resources.energy
             >= Ceil(2 * TargetDistance(p, Pushed(p)), AU))
       => LET system == solarSystems[probes[p].currentSystemId]
              target == system.bodies[TargetIndex(p, Pushed(p))].position
              cost == Ceil(2 * TargetDistance(p, Pushed(p)), AU)
          IN /\ Pushed(p).result.success
             /\ probes'[p].position = target
             /\ probes'[p].resources
                  = [probes[p].resources EXCEPT !.energy = @ - cost]
             /\ probes'[p].status = "active"
             /\ probes'[p]
                  = [probes[p] EXCEPT
                       !.position = target,
                       !.resources.energy = @ - cost,
                       !.status = "active",
                       !.memory.experiences = probes'[p].memory.experiences]
             /\ DOMAIN probes' = DOMAIN probes
             /\ \A q \in DOMAIN probes \ {p} : probes'[q] = probes[q]
             /\ solarSystems' = solarSystems]_vars

\* C34 witness: a probe has travelled the 80 million km (0.53 AU) from Sol
\* Prime I to Sol Prime II for ceil(1.07) = 2 units of energy, while another
\* probe is in the store.
C34_Witness ==
  \E p \in DOMAIN probes :
    /\ HasEntry(p, "travel_to_body", TRUE)
    /\ probes[p].position = SeedBodies[2].position
    /\ agents[p].executedActions[1].action = "travel_to_body"
    /\ probes[p].resources.energy
         = tickEntry.probes[p].resources.energy + solarEnergyGain - 2
    /\ probes[p].status = "active"
    /\ Cardinality(DOMAIN probes) > 1

\* --------------------------------------------------------------------- scan
\* probe.memory.discoveredResources of the probe id in ps
Discovered(ps, id) == ps[id].memory.discoveredResources

\* what a scan called in this state would do
C35_ScanNow ==
  \A id \in DOMAIN probes :
    \A b \in BodyIds(solarSystems[probes[id].currentSystemId]) :
      LET done == scanForResources(World, id, b)
          system == solarSystems[probes[id].currentSystemId]
          body == system.bodies[FindBody(system, b)]
          inRange == calculateDistance(probes[id].position, body.position)
                       <= probes[id].capabilities.sensorRange * AU
      IN /\ inRange <=> done.success
         /\ ~done.threw
         /\ done.success
              => /\ b \in DOMAIN Discovered(done.w.probes, id)
                 /\ Discovered(done.w.probes, id)[b] = body.resources
                 /\ \A k \in DOMAIN Discovered(probes, id) \ {b} :
                      Discovered(done.w.probes, id)[k]
                        = Discovered(probes, id)[k]
                 /\ done.w.probes[id].resources = probes[id].resources
                 /\ done.w.probes[id].position = probes[id].position
                 /\ done.w.probes[id].status = probes[id].status
                 /\ done.w.solarSystems = solarSystems

\* a scan that is run
C35_ScanStep ==
  (CallStep("scan-for-resources") /\ lastCall'.out.value.success)
  => LET id == lastCall'.id
     IN /\ DOMAIN probes' = DOMAIN probes
        /\ \A q \in DOMAIN probes :
             /\ probes'[q].resources = probes[q].resources
             /\ probes'[q].position = probes[q].position
             /\ probes'[q].status = probes[q].status
             /\ q # id => probes'[q] = probes[q]
        /\ solarSystems' = solarSystems
        /\ \E b \in BodyIds(solarSystems[probes[id].currentSystemId]) :
             Discovered(probes', id)
               = SetKey(Discovered(probes, id), b,
                        StockOf(solarSystems, id, b))

\* a harvest that is run
C35_HarvestStep ==
  CallStep("harvest-resources")
  => \A q \in DOMAIN probes :
       Discovered(probes', q) = Discovered(probes, q)

\* C35: a scan of a body within sensor range succeeds; a successful scan sets
\* the probe's discovered-resources entry for that body to the body's stock
\* at the time of the scan and changes neither the probe's inventory,
\* position or status nor any body's stock; a later harvest does not change
\* a recorded entry.  (1) In every state, for every probe and body: what a
\* scan called now would do.  (2) On every scan that is run: the frame, and
\* the entries after it are those before it with one set to its body's stock.
\* (3) On every harvest that is run: every probe's entries are as before.
C35_Scan == []C35_ScanNow /\ [][C35_ScanStep /\ C35_HarvestStep]_vars

\* C35 witness: a probe scanned Sol Prime I and then harvested it: the entry
\* holds the stock at the time of the scan, the body holds less.
C35_Witness ==
  /\ lastCall.op = "harvest-resources"
  /\ lastCall.out.value.success
  /\ "b1" \in DOMAIN Discovered(probes, lastCall.id)
  /\ Discovered(probes, lastCall.id)["b1"] = SeedBodies[1].resources
  /\ StockOf(solarSystems, lastCall.id, "b1").metal
       = SeedBodies[1].resources.metal - 500

\* ------------------------------------------------------- a child's memory
\* a probe that appears
C36_CopyAtCreation ==
  \A c \in DOMAIN probes' \ DOMAIN probes :
    LET parent == probes'[c].parentProbeId
    IN /\ parent \in DOMAIN probes
       /\ probes'[c].memory.visitedSystems
            = probes[parent].memory.visitedSystems
       /\ Discovered(probes', c) = Discovered(probes, parent)
       /\ Discovered(probes', c) = Discovered(probes', parent)

\* a call for one probe and the memory of the others
C36_Independent ==
  \A op \in MutatingOps :
    CallStep(op)
    => \A q \in DOMAIN probes \ {lastCall'.id} :
         /\ q \in DOMAIN probes'
         /\ probes'[q].memory = probes[q].memory

\* C36: a child's memory is a copy by value of the parent's.  (1) A probe that
\* appears has the visited systems and the discovered resources its parent
\* had.  (2) A call for one probe (a scan, a manufacture, any executor, an
\* added experience) changes the memory of no other probe: a change to the
\* parent's memory leaves the child's unchanged, and a change to the child's
\* leaves the parent's unchanged.
C36_MemoryCopied == [][C36_CopyAtCreation /\ C36_Independent]_vars

\* C36 witness: a parent scanned Sol Prime II after its child was created;
\* the parent's discovered resources hold the body, the child's do not.
C36_Witness ==
  /\ lastCall.op = "scan-for-resources"
  /\ lastCall.out.value.success
  /\ \E c \in DOMAIN probes :
       /\ probes[c].parentProbeId = lastCall.id
       /\ "b2" \in DOMAIN Discovered(probes, lastCall.id)
       /\ "b2" \notin DOMAIN Discovered(probes, c)

\* --------------------------------------------------------- storage capacity
\* C37: in every reachable state each probe's total inventory (the sum of its
\* five resource fields) is at most its storage capacity.
C37_WithinCapacity ==
  \A p \in DOMAIN probes :
    getTotalResourceAmount(probes[p].resources)
      <= probes[p].capabilities.storageCapacity

\* ------------------------------------------------------------ conservation
\* the total of resource r over the inventories of ps and the bodies of
\* systems
TotalOf(ps, systems, r) ==
  SumOver([p \in DOMAIN ps |-> ps[p].resources[r]], DOMAIN ps)
    + BodyTotal([solarSystems |-> systems], r)

Materials == ResourceType \ {"energy"}

\* this step is a successful call of the executor of actionKind
SucceededStep(actionKind) ==
  \E p \in ProbeIds :
    /\ ExecStep(p)
    /\ Pushed(p).action = actionKind
    /\ Pushed(p).result.success

\* the totals before and after one step
C38_Step ==
  /\ \A r \in Materials :
       LET before == TotalOf(probes, solarSystems, r)
           after == TotalOf(probes', solarSystems', r)
       IN /\ after <= before
          /\ SucceededStep("harvest_resources") => after = before
          /\ SucceededStep("manufacture_probe")
               => /\ after < before
                  /\ after = before - PROBE_REPLICATION_COST[r]
                               + NEW_PROBE_RESOURCES[r]
          /\ ~SucceededStep("manufacture_probe") => after = before
  /\ LET before == TotalOf(probes, solarSystems, "energy")
         after == TotalOf(probes', solarSystems', "energy")
     IN /\ after > before => simPc = "loop" /\ simPc' = "await"
        /\ (simPc = "loop" /\ simPc' = "await")
             => after = before
                  + solarEnergyGain
                      * Cardinality({p \in DOMAIN probes :
                                       probes[p].status = "active"})
        /\ SucceededStep("harvest_resources") => after = before

\* C38: for each of metal, silicon, hydrogen and rare_elements, the total over
\* all probes' inventories plus all bodies' stocks never increases: a harvest
\* keeps it equal, a successful manufacture lowers it (by the replication
\* cost less the child's starting inventory), and solar charging, travel,
\* scan, wait, explore and every failed call leave it unchanged.  The energy
\* total increases only in the step that applies solar charging, by 20 per
\* active probe.
C38_NoMaterialCreated == [][C38_Step]_vars

\* C38 witness: in one tick a probe has harvested and manufactured: the metal
\* total is 450 below what it was on entry to the tick, and the energy total
\* is lower too, the solar charge of the tick included.
C38_Witness ==
  \E p \in DOMAIN probes :
    /\ HasEntry(p, "harvest_resources", TRUE)
    /\ HasEntry(p, "manufacture_probe", TRUE)
    /\ TotalOf(probes, solarSystems, "metal")
         = TotalOf(tickEntry.probes, tickEntry.solarSystems, "metal") - 450
    /\ TotalOf(probes, solarSystems, "energy")
         < TotalOf(tickEntry.probes, tickEntry.solarSystems, "energy")

\* ---------------------------------------------------- a new probe's ticks
\* the probes manufactured since the running (or last) tick was entered
BornThisTick == DOMAIN probes \ DOMAIN tickEntry.probes

\* this step enters a tick: solar charging, selection, fan-out
EntersTick == simPc = "loop" /\ simPc' = "await"

\* a probe made in the running tick
C39_NewProbeIdle ==
  \A c \in BornThisTick :
    /\ c \notin DOMAIN agents
    /\ probes[c].resources = NEW_PROBE_RESOURCES
    /\ probes[c].memory.experiences = <<"probe_manufactured">>
    /\ probes[c].status = "active"

\* the step that enters a tick
C39_EntersNextTick ==
  EntersTick
  => /\ \A c \in BornThisTick :
          /\ c \in DOMAIN agents'
          /\ agents'[c] = NewAgent
          /\ probes'[c].resources
               = [NEW_PROBE_RESOURCES EXCEPT !.energy = @ + solarEnergyGain]
          /\ probes'[c].memory.experiences
               = <<"probe_manufactured", "solar_charging">>
     /\ DOMAIN agents'
          = {p \in DOMAIN probes : probes[p].status # "destroyed"}
     /\ Len(activeProbes') = Cardinality(DOMAIN agents')
     /\ {activeProbes'[i] : i \in 1..Len(activeProbes')} = DOMAIN agents'
     /\ tick' = tick + 1

\* the join of a tick in which a probe was made
C39_NextTickRuns ==
  (simPc = "await" /\ simPc' # "await" /\ BornThisTick # {})
  => /\ simPc' = "done" <=> tick = maxTicks
     /\ simPc' = "loop" <=> tick < maxTicks

\* C39: a probe manufactured during tick N runs no pipeline and receives no
\* passive income in tick N; it receives its first passive income and its
\* first pipeline in tick N+1, which runs unless N was the last tick, and
\* every tick fans out exactly one pipeline per probe that is not destroyed.
\* (1) Until the next tick is entered, a new probe has no pipeline and is as
\* it was made: the starting inventory and the one experience.  (2) The
\* step that enters the next tick charges it once and gives it a pipeline.
\* (3) The step that enters a tick selects each probe that is not destroyed
\* once, and no other.  (4) The join of a tick in which a probe was made ends
\* the simulation only at the tick limit.
C39_FirstTick ==
  []C39_NewProbeIdle /\ [][C39_EntersNextTick /\ C39_NextTickRuns]_vars

\* C39 witness: a probe made in tick 1 has run its first pipeline in tick 2,
\* after its first solar charge.
C39_Witness ==
  /\ tick = 2
  /\ \E c \in DOMAIN agents :
       /\ probes[c].parentProbeId \in DOMAIN probes
       /\ probes[c].generation = 1
       /\ agents[c].pc = "done"
       /\ Len(agents[c].executedActions) > 0
       /\ CountEvent(probes[c].memory.experiences, "solar_charging") = 1
       /\ executionLog[1].probeCount = 1

=============================================================================
